---- MODULE Spec2Model ----
(***************************************************************************)
(* A model of the Coquette terminal client (src/simple_tui.py).            *)
(*                                                                         *)
(* The client object (class CoquetteTUI) is the record `tui`; its fields   *)
(* keep the names of the Python attributes.  The backend child process,   *)
(* its two pipes and the locals of send_message are separate variables, as *)
(* are the pass-through child, its pseudo-terminal and the reader thread.  *)
(*                                                                         *)
(* Text on the diagnostic pipe is a sequence of tokens (a complete JSON    *)
(* object, one half of one, other text, blanks, a newline); json.loads of  *)
(* a line is ParseLine.  Icons of the source that are not ASCII are        *)
(* written as bracketed ASCII names.                                       *)
(***************************************************************************)
EXTENDS Integers, Sequences, FiniteSets, TLC

VARIABLES
    tui,            \* the CoquetteTUI object (self)
    mainPc,         \* main thread: "start", "loop", "exited"
    keys,           \* ghost: number of shortcut keys handled so far
    sendPc,         \* position of the main thread inside send_message
    sendMsg,        \* send_message: the parameter `message`
    cmd,            \* send_message: the command line built for the child
    proc,           \* backend child: "none", "running", "exited"
    script,         \* backend child: what it still has to write
    returnCode,     \* backend child: its exit code
    outPipe,        \* bytes written to the child's stdout, not read yet
    errPipe,        \* tokens written to the child's stderr, not read yet
    stdout_lines,   \* send_message: chunks read from stdout
    stderr_lines,   \* send_message: chunks read from stderr
    wroteOut,       \* ghost: everything the child wrote to stdout
    wroteErr,       \* ghost: everything the child wrote to stderr
    classified,     \* ghost: the chunks handed to process_system_messages
    applied,        \* ghost: the events applied to the session, in order
    drained,        \* ghost: what the read after the exit found in the pipes
    deadline,       \* ghost: the maximum wait (360 s) of this send has passed
    sends,          \* ghost: number of send_message calls made
    copyDraw,       \* ghost: draw_screen was called while copy_mode was on
    now,            \* the clock read by time.time(), in seconds
    claude_process, \* pass-through child: "running" or "exited"
    claude_output_buffer, \* self.claude_output_buffer (the PtyBuffer)
    ptyPending,     \* lines the child wrote to the pty, not read yet
    ptyIn,          \* texts the client wrote to the pty master
    ptyWritten,     \* ghost: number of lines the child wrote to the pty
    ptyBursts,      \* ghost: number of bursts the child wrote to the pty
    readerPc,       \* reader thread: "test", "select", "check", "done"
    lastAppend,     \* ghost: [before, added] of the reader's last extend
    drawPc,         \* raw-view redraw: "idle", "cond", "slice", "alias",
                    \* "loop", "done"
    height,         \* raw-view redraw: output_height of this redraw
    display_lines,  \* raw-view redraw: the list being displayed
    aliased,        \* raw-view redraw: display_lines IS the live buffer
    drawI,          \* raw-view redraw: loop index
    shown,          \* ghost: the lines this redraw has put on screen
    seenViews       \* ghost: the most recent `height` lines of every buffer
                    \* state that existed during the redraw

vars == <<tui, mainPc, keys, sendPc, sendMsg, cmd, proc, script, returnCode, outPipe,
          errPipe, stdout_lines, stderr_lines, wroteOut, wroteErr, classified,
          applied, drained, deadline, sends, copyDraw, now, claude_process,
          claude_output_buffer, ptyPending, ptyIn, ptyWritten, ptyBursts,
          readerPc, lastAppend, drawPc, height, display_lines, aliased, drawI,
          shown, seenViews>>

clientVars == <<tui, mainPc, keys, sendPc, sendMsg, cmd, proc, script, returnCode,
                outPipe, errPipe, stdout_lines, stderr_lines, wroteOut,
                wroteErr, classified, applied, drained, deadline, sends,
                copyDraw, now, ptyIn>>

ptyVars == <<claude_process, claude_output_buffer, ptyPending, ptyWritten,
             ptyBursts, readerPc, lastAppend, drawPc, height, display_lines,
             aliased, drawI, shown, seenViews>>

-----------------------------------------------------------------------------
(* Bounds of the model.                                                    *)

\* send_message calls in one session
MaxSends == 1
\* sends of a session in which starting the child can fail
MaxAttempts == 2
\* shortcut keys handled in one session
MaxShortcuts == 1
\* diagnostic lines handed to the classifier in one run of it alone
MaxLines == 2
\* bursts of output the pass-through child writes
MaxPtyWrites == 3
\* writes a backend child makes before it exits, in the model of one send
MaxPieces == 2
\* fragments a response content is put together from
MaxFragments == 3
\* most presses of Ctrl+T and Ctrl+O by the user who switches provider
MaxToolKeys == 6

-----------------------------------------------------------------------------
(* Text helpers.                                                           *)

\* Python: k in s
Contains(s, k) ==
    \E i \in 1..(Len(s) - Len(k) + 1) : SubSeq(s, i, i + Len(k) - 1) = k

\* Python: s[:n]
Prefix(s, n) == IF Len(s) <= n THEN s ELSE SubSeq(s, 1, n)

IsWs(c) == c \in {" ", "\n", "\t", "\r"}

RECURSIVE LStrip(_)
LStrip(s) ==
    IF Len(s) > 0 /\ IsWs(SubSeq(s, 1, 1)) THEN LStrip(SubSeq(s, 2, Len(s))) ELSE s

RECURSIVE RStrip(_)
RStrip(s) ==
    IF Len(s) > 0 /\ IsWs(SubSeq(s, Len(s), Len(s)))
    THEN RStrip(SubSeq(s, 1, Len(s) - 1)) ELSE s

\* Python: s.strip()
Strip(s) == IF s = "" THEN "" ELSE LStrip(RStrip(s))

\* Python: ''.join(chunks)
RECURSIVE Join(_)
Join(chunks) == IF chunks = <<>> THEN "" ELSE Head(chunks) \o Join(Tail(chunks))

\* ''.join over chunks of tokens
RECURSIVE Flatten(_)
Flatten(chunks) ==
    IF chunks = <<>> THEN <<>> ELSE Head(chunks) \o Flatten(Tail(chunks))

IsPrefixOf(a, b) == Len(a) <= Len(b) /\ SubSeq(b, 1, Len(a)) = a

Digits == <<"0", "1", "2", "3", "4", "5", "6", "7", "8", "9">>

\* str() of a small natural number
RECURSIVE NumStr(_)
NumStr(n) == IF n < 10 THEN Digits[n + 1] ELSE NumStr(n \div 10) \o Digits[(n % 10) + 1]

UpperCase == "ABCDEFGHIJKLMNOPQRSTUVWXYZ"
LowerCase == "abcdefghijklmnopqrstuvwxyz"

LowerChar(c) ==
    IF \E i \in 1..Len(UpperCase) : SubSeq(UpperCase, i, i) = c
    THEN LET i == CHOOSE i \in 1..Len(UpperCase) : SubSeq(UpperCase, i, i) = c
         IN  SubSeq(LowerCase, i, i)
    ELSE c

\* Python: s.lower()
RECURSIVE Lower(_)
Lower(s) ==
    IF s = "" THEN "" ELSE LowerChar(SubSeq(s, 1, 1)) \o Lower(SubSeq(s, 2, Len(s)))

\* Python: c * n for a one-character string
RECURSIVE Repeat(_, _)
Repeat(c, n) == IF n = 0 THEN "" ELSE c \o Repeat(c, n - 1)

-----------------------------------------------------------------------------
(* Diagnostic events: one JSON object of the backend's stderr.             *)

\* a key the JSON object does not have
Absent == "<absent>"
\* a value that is not a string (a number, a list, null)
NonStr == "<nonstr>"

\* dict.get(key, default)
Get(v, d) == IF v = Absent THEN d ELSE v

BaseEvent ==
    [type |-> Absent, message |-> Absent, content |-> Absent,
     activity |-> Absent, tool_name |-> Absent,
     md_source |-> Absent, md_status |-> Absent, md_message |-> Absent,
     md_acknowledgment |-> Absent, md_operation |-> Absent,
     md_step_tool |-> Absent, md_step_description |-> Absent,
     md_attempt |-> Absent, md_error |-> Absent]

\* a message of the log; a key the dict does not have is Absent
Msg(role, content) ==
    [role |-> role, content |-> content, immediate |-> FALSE,
     source |-> Absent, tool |-> Absent]

-----------------------------------------------------------------------------
(* should_ignore_message                                                   *)

debug_noise_keywords ==
    <<"ollama_request_enqueued", "ollama_queue_reordered",
      "ollama_request_processing_start", "ollama_api_call_start",
      "ollama_model_switch_delay", "ollama_queue_processing_start",
      "ollama_queue_processing_complete", "intent_calling_gemma",
      "intent_gemma_response", "intent_parsing_response",
      "intent_parsed_successfully", "deepseek_json_debug",
      "error_context_agent_initializing", "error_context_agent_initialized",
      "component_status_changed", "processMessage_start",
      "input_routing_start", "input_routing_complete",
      "recursive_validation_iteration", "recursive_validation_analysis",
      "recursive_validation_satisfied">>

important_keywords ==
    <<"system_state_changed", "intelligence_router_start",
      "intelligence_router_complete", "tools_agent_start",
      "tools_agent_executing_step", "subconscious_reasoning_start",
      "subconscious_reasoning_complete", "personality_interpretation_start",
      "personality_interpretation_success", "ollama_request_success">>

ContainsAny(message, kws) == \E i \in 1..Len(kws) : Contains(message, kws[i])

\* the filter dropping the errors that carry no diagnostic marker
ShouldIgnoreUnmarkedErrors(message, msg_type) ==
    IF msg_type = "error"
    THEN ~(Contains(message, "all_json_blocks_failed")
             \/ Contains(message, "deepseek_json_debug"))
    ELSE IF msg_type # "engine" THEN FALSE
    ELSE IF ContainsAny(message, debug_noise_keywords) THEN TRUE
    ELSE IF ContainsAny(message, important_keywords) THEN FALSE
    ELSE TRUE

\* the filter without its part for engine events
ShouldIgnoreErrorsOnly(message, msg_type) ==
    /\ msg_type = "error"
    /\ Contains(message, "all_json_blocks_failed")
          \/ Contains(message, "deepseek_json_debug")

should_ignore_message(message, msg_type) ==
    IF msg_type = "error"
    THEN Contains(message, "all_json_blocks_failed")
            \/ Contains(message, "deepseek_json_debug")
    ELSE IF msg_type # "engine" THEN FALSE
    ELSE IF ContainsAny(message, debug_noise_keywords) THEN TRUE
    ELSE IF ContainsAny(message, important_keywords) THEN FALSE
    ELSE TRUE

\* `k in message` raises TypeError when message is not a string
IgnoreRaises(message, msg_type) ==
    msg_type \in {"error", "engine"} /\ message = NonStr

-----------------------------------------------------------------------------
(* update_status                                                           *)

\* f"{x:.1f}s" of a whole number of seconds
Secs(n) == NumStr(n) \o ".0s"

\* the elapsed-time suffix of the activity display at time t
ElapsedText(self, t) ==
    IF self.tool_start_time # <<>> /\ t - self.tool_start_time[1] > 2
    THEN " (" \o Secs(t - self.tool_start_time[1]) \o ")"
    ELSE ""

StatusIndicators(self) ==
    (IF self.error_contexts_loaded
     THEN <<"[warn]" \o NumStr(self.error_context_count)>> ELSE <<>>)
    \o (IF self.file_operations_active THEN <<"[files]">> ELSE <<>>)
    \o (IF self.recovery_attempts > 0
        THEN <<"[retry]" \o NumStr(self.recovery_attempts)>> ELSE <<>>)
    \o (IF self.connection_status = "error" THEN <<"[conn-bad]">>
        ELSE IF self.connection_status = "ok" THEN <<"[conn-ok]">> ELSE <<>>)
    \o (IF self.last_response_time > 10
        THEN <<"[time]" \o Secs(self.last_response_time)>> ELSE <<>>)

\* " ".join(parts)
RECURSIVE JoinSp(_)
JoinSp(parts) ==
    IF parts = <<>> THEN ""
    ELSE IF Len(parts) = 1 THEN parts[1]
    ELSE parts[1] \o " " \o JoinSp(Tail(parts))

\* the text of the activity part of the status line
ActivityText(self, t) ==
    IF self.current_tool_activity # ""
    THEN " | [tool] " \o self.current_tool_activity
            \o Repeat(".", self.tool_progress_dots % 4) \o ElapsedText(self, t)
    ELSE IF self.thinking THEN " | [thought] thinking..."
    ELSE ""

StatusText(self, t) ==
    self.provider \o " | "
      \o (IF self.view_mode = "claude_raw" THEN "[tool]" ELSE "[mask]")
      \o self.personality \o " | "
      \o (IF self.conversation_context THEN "[brain]" ELSE "[cycle]")
      \o (IF self.provider = "local"
          THEN " " \o (IF self.tools_enabled THEN "[tool]" ELSE "[chat]")
          ELSE "")
      \o (IF StatusIndicators(self) # <<>>
          THEN " | " \o JoinSp(StatusIndicators(self)) ELSE "")
      \o (IF self.view_mode = "claude_raw" THEN " | RAW VIEW" ELSE "")
      \o ActivityText(self, t)
      \o (IF self.copy_mode THEN " | [clip] COPY MODE (Ctrl+R to resume)" ELSE "")

update_status(self, t) == [self EXCEPT !.status = StatusText(self, t)]

-----------------------------------------------------------------------------
(* process_system_messages: the effect of one parsed event.                *)
(* A classifier context c is [self, classified, applied, copyDraw, raised]:*)
(* the client object, the chunks handed to process_system_messages so far, *)
(* the events dispatched so far, whether draw_screen ran in copy mode, and *)
(* whether an exception has left the line loop.                            *)

\* length of the error text kept in the status line
ErrorTextMax == 50

draw_screen(c) == [c EXCEPT !.copyDraw = @ \/ c.self.copy_mode]

\* if not self.copy_mode: self.draw_screen()
DrawUnlessCopy(c) == IF c.self.copy_mode THEN c ELSE draw_screen(c)

Raise(c) == [c EXCEPT !.raised = TRUE]

\* the assistant_message branch without the personality marker
OnAssistantMessagePlain(c, ev) ==
    LET content == Get(ev.content, "")
        source  == Get(ev.md_source, "")
    IN  IF content = NonStr THEN Raise(c)
        ELSE IF Strip(content) = "" THEN c
        ELSE DrawUnlessCopy(
               [c EXCEPT !.self.messages = Append(@,
                   [Msg("assistant", content)
                    EXCEPT !.immediate = TRUE, !.source = source])])

OnAssistantMessage(c, ev) ==
    LET content == Get(ev.content, "")
        source  == Get(ev.md_source, "")
    IN  IF content = NonStr THEN Raise(c)
        ELSE IF Strip(content) = "" THEN c
        ELSE DrawUnlessCopy(
               [c EXCEPT !.self.messages = Append(@,
                   [Msg("assistant",
                        IF source = "personality_acknowledgment"
                        THEN "[mask] " \o content ELSE content)
                    EXCEPT !.immediate = TRUE, !.source = source])])

\* the tool_activity branch without its call of update_status
OnToolActivityStale(c, ev, t) ==
    LET activity == Get(ev.activity, "")
    IN  IF activity = NonStr THEN Raise(c)
        ELSE DrawUnlessCopy(
               [c EXCEPT !.self =
                   IF Strip(activity) # ""
                   THEN [c.self EXCEPT !.current_tool_activity = activity,
                                       !.tool_start_time = <<t>>,
                                       !.tool_progress_dots = 0]
                   ELSE [c.self EXCEPT !.current_tool_activity = "",
                                       !.tool_start_time = <<>>]])

OnToolActivity(c, ev, t) ==
    LET activity == Get(ev.activity, "")
    IN  IF activity = NonStr THEN Raise(c)
        ELSE DrawUnlessCopy(
               [c EXCEPT !.self = update_status(
                   IF Strip(activity) # ""
                   THEN [c.self EXCEPT !.current_tool_activity = activity,
                                       !.tool_start_time = <<t>>,
                                       !.tool_progress_dots = 0]
                   ELSE [c.self EXCEPT !.current_tool_activity = "",
                                       !.tool_start_time = <<>>], t)])

OnToolBlurb(c, ev) ==
    LET content   == Get(ev.content, "")
        tool_name == Get(ev.tool_name, "")
    IN  IF content = NonStr THEN Raise(c)
        ELSE IF Strip(content) = "" THEN c
        ELSE DrawUnlessCopy(
               [c EXCEPT !.self.messages = Append(@,
                   [Msg("system", "[tool] " \o content)
                    EXCEPT !.tool = tool_name])])

\* the state-change branch without its test of metadata.status
OnSystemStateChangedAnyStatus(c, ev) ==
    LET status_message == Get(ev.md_message, "")
    IN  IF status_message # ""
        THEN [c EXCEPT !.self.messages = Append(@, Msg("system", status_message)),
                       !.self.status = "Status: Ready"]
        ELSE c

OnSystemStateChanged(c, ev) ==
    LET status         == Get(ev.md_status, "")
        status_message == Get(ev.md_message, "")
    IN  IF status = "ready" /\ status_message # ""
        THEN [c EXCEPT !.self.messages = Append(@, Msg("system", status_message)),
                       !.self.status = "Status: Ready"]
        ELSE c

OnFileAcknowledgment(c, ev) ==
    LET acknowledgment == Get(ev.md_acknowledgment, "")
    IN  IF acknowledgment = NonStr THEN Raise(c)
        ELSE IF Strip(acknowledgment) = "" THEN c
        ELSE [c EXCEPT !.self.messages = Append(@, Msg("assistant", acknowledgment))]

SetActivity(self, status, activity, t) ==
    [self EXCEPT !.status = status, !.current_tool_activity = activity,
                 !.tool_start_time = <<t>>]

\* the substring-keyed chain of the remaining engine events
EngineStatus(self, message, ev, t) ==
    IF Contains(message, "loading_personality")
    THEN [self EXCEPT !.status = "Loading " \o Get(ev.md_message, "personality") \o "..."]
    ELSE IF Contains(message, "file_operations_calling_gemma")
    THEN [self EXCEPT !.status = "Planning file operations..."]
    ELSE IF Contains(message, "file_operation_executing")
    THEN [self EXCEPT !.status = "Executing: " \o Get(ev.md_operation, "operation")]
    ELSE IF Contains(message, "personalizing")
            \/ Contains(message, "personality_interpretation")
    THEN [self EXCEPT !.status = "Personalizing response..."]
    ELSE IF Contains(message, "intent_classification")
    THEN SetActivity(self, "[brain] Analyzing intent...", "analyzing user intent", t)
    ELSE IF Contains(message, "intelligence_router")
    THEN SetActivity(self, "[robot] Selecting optimal model...",
                     "routing to best AI model", t)
    ELSE IF Contains(message, "tools_agent_start")
    THEN SetActivity(self, "[tool] Planning tool execution...", "planning tool steps", t)
    ELSE IF Contains(message, "tools_agent_executing_step")
    THEN LET tool_name   == Get(ev.md_step_tool, "unknown")
             description == Get(ev.md_step_description, "")
         IN  SetActivity(self,
                 IF description # "" THEN "[tool] " \o description \o "..."
                 ELSE "[tool] Executing " \o tool_name \o "...",
                 "executing " \o tool_name, t)
    ELSE IF Contains(message, "recursive_validation")
    THEN SetActivity(self, "[search] Validating results recursively...",
                     "recursive validation", t)
    ELSE IF Contains(message, "subconscious_reasoning")
    THEN SetActivity(self, "[brain] Deep reasoning with DeepSeek...",
                     "deep subconscious analysis", t)
    ELSE IF Contains(message, "deepseek_attempt")
    THEN LET attempt == Get(ev.md_attempt, "1")
         IN  [self EXCEPT
                !.status = "[brain] DeepSeek thinking (attempt " \o attempt \o ")...",
                !.current_tool_activity = "DeepSeek reasoning (try " \o attempt \o ")"]
    ELSE IF Contains(message, "personality_interpretation")
    THEN SetActivity(self, "[mask] Ani interpreting response...",
                     "personality interpretation", t)
    ELSE IF Contains(message, "thinking")
    THEN SetActivity(self, "[thought] " \o Get(ev.md_message, "Thinking..."),
                     "thinking", t)
    ELSE IF Contains(message, "_complete") \/ Contains(message, "_success")
    THEN [self EXCEPT !.current_tool_activity = "", !.tool_start_time = <<>>,
                      !.status = "[check] Task completed"]
    ELSE IF Contains(message, "_failed") \/ Contains(Lower(message), "error")
    THEN [self EXCEPT !.current_tool_activity = "", !.tool_start_time = <<>>,
                      !.status = "[cross] Error: "
                          \o Prefix(Get(ev.md_error, "Unknown error"), ErrorTextMax)
                          \o "..."]
    ELSE self

\* the body of the line loop for a line that parsed to the dict ev
ApplyEvent(c, ev, t) ==
    LET msg_type == Get(ev.type, "")
        message  == Get(ev.message, "")
    IN  IF IgnoreRaises(message, msg_type) THEN Raise(c)
        ELSE IF should_ignore_message(message, msg_type) THEN c
        ELSE LET d == [c EXCEPT !.applied = Append(@, ev)]
             IN  IF msg_type = "assistant_message" THEN OnAssistantMessage(d, ev)
                 ELSE IF msg_type = "tool_activity" THEN OnToolActivity(d, ev, t)
                 ELSE IF msg_type = "tool_blurb" THEN OnToolBlurb(d, ev)
                 ELSE IF msg_type = "engine" /\ Contains(message, "system_state_changed")
                 THEN OnSystemStateChanged(d, ev)
                 ELSE IF msg_type = "engine"
                           /\ Contains(message, "file_operations_user_acknowledgment")
                 THEN OnFileAcknowledgment(d, ev)
                 ELSE IF msg_type = "engine"
                 THEN [d EXCEPT !.self = EngineStatus(d.self, message, ev, t)]
                 ELSE d

-----------------------------------------------------------------------------
(* Diagnostic text.  A token is a complete JSON object ("json"), the first *)
(* or second half of one cut by a write boundary ("frag"), a JSON value    *)
(* that is not an object ("scalar"), other text ("text"), blanks ("ws") or *)
(* a newline ("nl").                                                       *)

Tok(k, ev, half) == [k |-> k, ev |-> ev, half |-> half]
J(ev) == Tok("json", ev, 0)
Frag(ev, half) == Tok("frag", ev, half)
NL == Tok("nl", BaseEvent, 0)
WS == Tok("ws", BaseEvent, 0)
Scalar == Tok("scalar", BaseEvent, 0)
Garbage == Tok("text", BaseEvent, 0)

IsBlankTok(tok) == tok.k \in {"nl", "ws"}

RECURSIVE LStripToks(_)
LStripToks(toks) ==
    IF toks # <<>> /\ IsBlankTok(Head(toks)) THEN LStripToks(Tail(toks)) ELSE toks

RECURSIVE RStripToks(_)
RStripToks(toks) ==
    IF toks # <<>> /\ IsBlankTok(toks[Len(toks)])
    THEN RStripToks(SubSeq(toks, 1, Len(toks) - 1)) ELSE toks

\* str.strip() of token text
StripToks(toks) == LStripToks(RStripToks(toks))

\* str.split('\n') of token text: the lines, acc being the line in progress
RECURSIVE SplitLines(_, _)
SplitLines(toks, acc) ==
    IF toks = <<>> THEN <<acc>>
    ELSE IF Head(toks).k = "nl" THEN <<acc>> \o SplitLines(Tail(toks), <<>>)
    ELSE SplitLines(Tail(toks), Append(acc, Head(toks)))

\* json.loads(line): [ok, dict, ev]; ok is FALSE for a JSONDecodeError
ParseLine(line) ==
    LET l == StripToks(line)
    IN  IF Len(l) = 1 /\ l[1].k = "json"
        THEN [ok |-> TRUE, dict |-> TRUE, ev |-> l[1].ev]
        ELSE IF Len(l) = 2 /\ l[1].k = "frag" /\ l[2].k = "frag"
                  /\ l[1].half = 1 /\ l[2].half = 2 /\ l[1].ev = l[2].ev
        THEN [ok |-> TRUE, dict |-> TRUE, ev |-> l[1].ev]
        ELSE IF Len(l) = 1 /\ l[1].k = "scalar"
        THEN [ok |-> TRUE, dict |-> FALSE, ev |-> BaseEvent]
        ELSE [ok |-> FALSE, dict |-> FALSE, ev |-> BaseEvent]

\* the pass of the loop without the handler of JSONDecodeError
ProcessLineStrict(c, line, t) ==
    IF StripToks(line) = <<>> THEN c
    ELSE LET p == ParseLine(line)
         IN  IF p.ok /\ p.dict THEN ApplyEvent(c, p.ev, t)
             ELSE IF p.ok THEN c
             ELSE Raise(c)

\* one pass of `for line in lines`
ProcessLine(c, line, t) ==
    IF StripToks(line) = <<>> THEN c
    ELSE LET p == ParseLine(line)
         IN  IF p.ok /\ p.dict THEN ApplyEvent(c, p.ev, t) ELSE c

\* the line loop run from the last line of the chunk to the first
RECURSIVE LineLoopNewestFirst(_, _, _)
LineLoopNewestFirst(c, lines, t) ==
    IF lines = <<>> \/ c.raised THEN c
    ELSE LineLoopNewestFirst(ProcessLine(c, lines[Len(lines)], t),
                             SubSeq(lines, 1, Len(lines) - 1), t)

\* the line loop, left early by an exception other than JSONDecodeError
RECURSIVE LineLoop(_, _, _)
LineLoop(c, lines, t) ==
    IF lines = <<>> \/ c.raised THEN c
    ELSE LineLoop(ProcessLine(c, Head(lines), t), Tail(lines), t)

\* process_system_messages(stderr_output); the outer handler absorbs a raise
process_system_messages(c, stderr_output, t) ==
    [LineLoop([c EXCEPT !.classified = Append(@, stderr_output)],
              SplitLines(StripToks(stderr_output), <<>>), t)
        EXCEPT !.raised = FALSE]

-----------------------------------------------------------------------------
(* json.loads on text.  A parsed value is a record: ok (no JSONDecodeError)*)
(* next (the position after the value), kind, str (the value of a string), *)
(* falsy (Python truth value is False) and, for an object, whether it has  *)
(* the keys content and metadata and the kind, value and truth value of    *)
(* its content.  Escapes other than \" \\ \/ \n \t are outside the model.  *)

CharAt(s, i) == IF 1 <= i /\ i <= Len(s) THEN SubSeq(s, i, i) ELSE ""

JsonFail ==
    [ok |-> FALSE, next |-> 0, kind |-> "none", str |-> "", falsy |-> FALSE,
     hasContent |-> FALSE, hasMetadata |-> FALSE,
     ckind |-> "none", cstr |-> "", cfalsy |-> FALSE]

JsonVal(next, kind, str, falsy) ==
    [JsonFail EXCEPT !.ok = TRUE, !.next = next, !.kind = kind, !.str = str,
                     !.falsy = falsy]

RECURSIVE SkipWs(_, _)
SkipWs(s, i) == IF IsWs(CharAt(s, i)) THEN SkipWs(s, i + 1) ELSE i

IsDigit(c) == c \in {"0", "1", "2", "3", "4", "5", "6", "7", "8", "9"}

RECURSIVE SkipDigits(_, _)
SkipDigits(s, i) == IF IsDigit(CharAt(s, i)) THEN SkipDigits(s, i + 1) ELSE i

\* the string whose opening quote is before position i
RECURSIVE ParseString(_, _, _)
ParseString(s, i, acc) ==
    LET ch == CharAt(s, i)
        e  == CharAt(s, i + 1)
    IN  IF ch = "" \/ ch \in {"\n", "\t", "\r"} THEN JsonFail
        ELSE IF ch = "\"" THEN JsonVal(i + 1, "string", acc, acc = "")
        ELSE IF ch = "\\"
        THEN IF e \in {"\"", "\\", "/"} THEN ParseString(s, i + 2, acc \o e)
             ELSE IF e = "n" THEN ParseString(s, i + 2, acc \o "\n")
             ELSE IF e = "t" THEN ParseString(s, i + 2, acc \o "\t")
             ELSE JsonFail
        ELSE ParseString(s, i + 1, acc \o ch)

ParseNumber(s, i) ==
    LET d == IF CharAt(s, i) = "-" THEN i + 1 ELSE i
        e == SkipDigits(s, d)
    IN  IF e = d \/ (e > d + 1 /\ CharAt(s, d) = "0") THEN JsonFail
        ELSE JsonVal(e, "number", "", SubSeq(s, d, e - 1) = "0")

\* Python: s[a-1:b] (a slice never raises)
Slice(s, a, b) ==
    IF a > Len(s) \/ b < a THEN ""
    ELSE SubSeq(s, a, IF b > Len(s) THEN Len(s) ELSE b)

ParseLiteral(s, i) ==
    IF Slice(s, i, i + 3) = "null" THEN JsonVal(i + 4, "null", "", TRUE)
    ELSE IF Slice(s, i, i + 3) = "true" THEN JsonVal(i + 4, "bool", "", FALSE)
    ELSE IF Slice(s, i, i + 4) = "false" THEN JsonVal(i + 5, "bool", "", TRUE)
    ELSE JsonFail

RECURSIVE ParseValue(_, _)
RECURSIVE ParseMembers(_, _, _)
RECURSIVE ParseElements(_, _, _)

\* the members of an object from position i on; acc is the object so far
ParseMembers(s, i, acc) ==
    LET k == SkipWs(s, i)
        key == ParseString(s, k + 1, "")
        colon == SkipWs(s, key.next)
        v == ParseValue(s, colon + 1)
        after == SkipWs(s, v.next)
        obj == IF key.str = "content"
               THEN [acc EXCEPT !.hasContent = TRUE, !.ckind = v.kind,
                                !.cstr = v.str, !.cfalsy = v.falsy,
                                !.falsy = FALSE]
               ELSE IF key.str = "metadata"
               THEN [acc EXCEPT !.hasMetadata = TRUE, !.falsy = FALSE]
               ELSE [acc EXCEPT !.falsy = FALSE]
    IN  IF CharAt(s, k) # "\"" THEN JsonFail
        ELSE IF ~key.ok \/ CharAt(s, colon) # ":" THEN JsonFail
        ELSE IF ~v.ok THEN JsonFail
        ELSE IF CharAt(s, after) = "}" THEN [obj EXCEPT !.next = after + 1]
        ELSE IF CharAt(s, after) = "," THEN ParseMembers(s, after + 1, obj)
        ELSE JsonFail

\* the elements of an array from position i on
ParseElements(s, i, acc) ==
    LET v == ParseValue(s, i)
        after == SkipWs(s, v.next)
    IN  IF ~v.ok THEN JsonFail
        ELSE IF CharAt(s, after) = "]"
        THEN [acc EXCEPT !.next = after + 1, !.falsy = FALSE]
        ELSE IF CharAt(s, after) = "," THEN ParseElements(s, after + 1, acc)
        ELSE JsonFail

ParseValue(s, i) ==
    LET k == SkipWs(s, i)
        ch == CharAt(s, k)
    IN  IF ch = "{"
        THEN IF CharAt(s, SkipWs(s, k + 1)) = "}"
             THEN JsonVal(SkipWs(s, k + 1) + 1, "object", "", TRUE)
             ELSE ParseMembers(s, k + 1, JsonVal(0, "object", "", TRUE))
        ELSE IF ch = "["
        THEN IF CharAt(s, SkipWs(s, k + 1)) = "]"
             THEN JsonVal(SkipWs(s, k + 1) + 1, "array", "", TRUE)
             ELSE ParseElements(s, k + 1, JsonVal(0, "array", "", TRUE))
        ELSE IF ch = "\"" THEN ParseString(s, k + 1, "")
        ELSE IF ch = "-" \/ IsDigit(ch) THEN ParseNumber(s, k)
        ELSE IF ch \in {"n", "t", "f"} THEN ParseLiteral(s, k)
        ELSE JsonFail

\* json.loads(text): the whole text is one value
JsonLoads(text) ==
    LET v == ParseValue(text, 1)
    IN  IF v.ok /\ SkipWs(text, v.next) = Len(text) + 1 THEN v ELSE JsonFail

-----------------------------------------------------------------------------
(* clean_response_formatting                                               *)

\* Python: s.replace(old, new), old not empty
RECURSIVE Replace(_, _, _)
Replace(s, old, new) ==
    IF Len(s) < Len(old) THEN s
    ELSE IF SubSeq(s, 1, Len(old)) = old
    THEN new \o Replace(SubSeq(s, Len(old) + 1, Len(s)), old, new)
    ELSE SubSeq(s, 1, 1) \o Replace(SubSeq(s, 2, Len(s)), old, new)

\* the length of the run of character ch at the front of s
RECURSIVE RunLen(_, _)
RunLen(s, ch) ==
    IF Len(s) > 0 /\ SubSeq(s, 1, 1) = ch
    THEN 1 + RunLen(SubSeq(s, 2, Len(s)), ch) ELSE 0

\* re.sub of a run of n or more ch by new
RECURSIVE CollapseRuns(_, _, _, _)
CollapseRuns(s, ch, n, new) ==
    IF s = "" THEN ""
    ELSE LET r == RunLen(s, ch)
         IN  IF r >= n
             THEN new \o CollapseRuns(SubSeq(s, r + 1, Len(s)), ch, n, new)
             ELSE IF r > 0
             THEN SubSeq(s, 1, r) \o CollapseRuns(SubSeq(s, r + 1, Len(s)), ch, n, new)
             ELSE SubSeq(s, 1, 1) \o CollapseRuns(SubSeq(s, 2, Len(s)), ch, n, new)

\* clean_response_formatting(content) for a string content
clean_response_formatting(content) ==
    IF content = "" THEN content
    ELSE LET a == Replace(Replace(content, "*", ""), "_", "")
             b == Replace(Replace(a, "**", ""), "__", "")
             d == CollapseRuns(CollapseRuns(b, "\n", 3, "\n\n"), " ", 2, " ")
             e == Replace(Replace(d, "\\\"", "\""), "\\n", "\n")
         IN  Strip(e)

-----------------------------------------------------------------------------
(* Response extraction (send_message, return code 0).                      *)

IsResponse(v) == v.ok /\ v.kind = "object" /\ v.hasContent /\ v.hasMetadata

\* the positions of the braces of s: the other characters leave the
\* counters of the scans below as they are
BracePositions(s) ==
    SelectSeq([i \in 1..Len(s) |-> i], LAMBDA i : CharAt(s, i) \in {"{", "}"})

\* the candidate scan: the spans accepted at the brace positions ps;
\* start_pos is 0 where the source has -1
RECURSIVE CandidateScan(_, _, _, _)
CandidateScan(s, ps, brace_count, start_pos) ==
    IF ps = <<>> THEN <<>>
    ELSE IF CharAt(s, Head(ps)) = "{"
    THEN CandidateScan(s, Tail(ps), brace_count + 1,
                       IF brace_count = 0 THEN Head(ps) ELSE start_pos)
    ELSE IF brace_count - 1 = 0 /\ start_pos # 0
    THEN (IF IsResponse(JsonLoads(SubSeq(s, start_pos, Head(ps))))
          THEN <<SubSeq(s, start_pos, Head(ps))>> ELSE <<>>)
         \o CandidateScan(s, Tail(ps), 0, 0)
    ELSE CandidateScan(s, Tail(ps), brace_count - 1, start_pos)

\* str.find('{'): the position of the first brace, 0 where the source has -1
FindBrace(s) ==
    LET opens == SelectSeq(BracePositions(s), LAMBDA i : CharAt(s, i) = "{")
    IN  IF opens = <<>> THEN 0 ELSE opens[1]

\* the fallback scan of json_part: the end of the first balanced span, or 0
RECURSIVE BalancedEnd(_, _, _)
BalancedEnd(json_part, ps, brace_count) ==
    IF ps = <<>> THEN 0
    ELSE IF CharAt(json_part, Head(ps)) = "{"
    THEN BalancedEnd(json_part, Tail(ps), brace_count + 1)
    ELSE IF brace_count - 1 = 0 THEN Head(ps)
    ELSE BalancedEnd(json_part, Tail(ps), brace_count - 1)

\* clean_json: the text handed to the final json.loads
CleanJson(clean_stdout) ==
    LET json_candidates ==
            CandidateScan(clean_stdout, BracePositions(clean_stdout), 0, 0)
        json_start == FindBrace(clean_stdout)
        json_part == SubSeq(clean_stdout, json_start, Len(clean_stdout))
        json_end == BalancedEnd(json_part, BracePositions(json_part), 0)
    IN  IF json_candidates # <<>> THEN json_candidates[Len(json_candidates)]
        ELSE IF json_start = 0 THEN clean_stdout
        ELSE IF json_end # 0 THEN SubSeq(json_part, 1, json_end)
        ELSE json_part

\* the extraction whose handler of JSONDecodeError forgets the raw text
ResultContentNoFallback(full_stdout) ==
    LET clean_stdout == Strip(full_stdout)
        response == JsonLoads(CleanJson(clean_stdout))
    IN  IF ~response.ok THEN "No response"
        ELSE IF response.kind # "object" THEN "Error: no attribute 'get'"
        ELSE IF ~response.hasContent \/ response.ckind # "string"
        THEN "No response"
        ELSE clean_response_formatting(response.cstr)

\* the content of the assistant message of a run that returned 0
ResultContent(full_stdout) ==
    LET clean_stdout == Strip(full_stdout)
        response == JsonLoads(CleanJson(clean_stdout))
    IN  IF ~response.ok
        THEN (IF clean_stdout # "" THEN clean_stdout ELSE "No response")
        ELSE IF response.kind # "object"
        THEN "Error: '" \o response.kind \o "' object has no attribute 'get'"
        ELSE IF ~response.hasContent
        THEN clean_response_formatting("No response")
        ELSE IF response.ckind = "string"
        THEN clean_response_formatting(response.cstr)
        ELSE IF response.cfalsy /\ response.ckind \in {"array", "object"}
        THEN NonStr
        ELSE IF response.cfalsy
        THEN "Error: object of type '" \o response.ckind \o "' has no len()"
        ELSE "Error: '" \o response.ckind \o "' object has no attribute 'replace'"

-----------------------------------------------------------------------------
(* The client object after __init__, and the classifier context.           *)

InitTui ==
    [current_input |-> "", messages |-> <<>>, status |-> "Ready",
     provider |-> "claude", personality |-> "ani", streaming |-> TRUE,
     thinking |-> FALSE, copy_mode |-> FALSE, conversation_context |-> TRUE,
     tools_enabled |-> FALSE, view_mode |-> "personality",
     error_contexts_loaded |-> FALSE, error_context_count |-> 0,
     file_operations_active |-> FALSE, recovery_attempts |-> 0,
     connection_status |-> "unknown", last_engine_event |-> "",
     current_tool_activity |-> "", tool_progress_dots |-> 0,
     tool_start_time |-> <<>>, last_response_time |-> 0,
     total_messages_processed |-> 0]

Ctx(self) == [self |-> self, classified |-> classified, applied |-> applied,
              copyDraw |-> copyDraw, raised |-> FALSE]

\* the welcome message of run (its text is shortened)
Welcome == "[mask] Welcome to Coquette Enhanced!"

\* seconds a send can take, as measured by time.time() - start_time
ResponseTimes == {1, 11}

-----------------------------------------------------------------------------
(* The backend child: what it writes, in order, before it exits.           *)

WOut(data) == [fd |-> "out", text |-> data, toks |-> <<>>, code |-> 0]
WErr(toks) == [fd |-> "err", text |-> "", toks |-> toks, code |-> 0]
\* the last step of a child: it exits with this return code
WExit(code) == [fd |-> "exit", text |-> "", toks |-> <<>>, code |-> code]

EvActivity == [BaseEvent EXCEPT !.type = "tool_activity", !.activity = "reading file"]
EvClear == [BaseEvent EXCEPT !.type = "tool_activity", !.activity = ""]
EvAck ==
    [BaseEvent EXCEPT !.type = "assistant_message", !.content = "On it!",
                      !.md_source = "personality_acknowledgment"]
EvBlurb == [BaseEvent EXCEPT !.type = "tool_blurb", !.content = "ran ls",
                             !.tool_name = "ls"]
EvReady ==
    [BaseEvent EXCEPT !.type = "engine", !.message = "system_state_changed",
                      !.md_status = "ready", !.md_message = "Ani is ready"]
EvRouter == [BaseEvent EXCEPT !.type = "engine",
                              !.message = "intelligence_router_start"]
EvNoise == [BaseEvent EXCEPT !.type = "engine",
                             !.message = "ollama_request_enqueued"]
EvSuccess == [BaseEvent EXCEPT !.type = "engine",
                               !.message = "ollama_request_success"]

Pong == "noise{\"content\":\"pong\",\"metadata\":{}}moretext"

Scripts ==
    { <<WOut(Pong), WExit(0)>>,
      <<WErr(<<J(EvActivity), NL>>), WErr(<<J(EvClear), NL>>), WOut("plain text"),
        WExit(0)>>,
      <<WErr(<<J(EvAck), NL, J(EvBlurb), NL>>), WOut("{\"content\":\"*hi*\"}"),
        WExit(0)>>,
      <<WErr(<<Frag(EvReady, 1)>>), WErr(<<Frag(EvReady, 2), NL>>), WExit(0)>>,
      <<WErr(<<Garbage, NL, J(EvNoise), NL, J(EvRouter), NL>>), WErr(<<J(EvBlurb)>>),
        WExit(1)>>,
      <<WErr(<<J(EvRouter), NL, J(EvSuccess), NL>>), WExit(0)>>,
      <<WExit(1)>> }

-----------------------------------------------------------------------------
(* handle_shortcuts                                                        *)

providers == <<"claude", "gemini", "local">>
personalities == <<"ani", "professional", "casual">>

\* list.index(x) if x in list else 0, counted from 0
IndexOrZero(list, x) ==
    IF \E i \in 1..Len(list) : list[i] = x
    THEN (CHOOSE i \in 1..Len(list) : list[i] = x) - 1
    ELSE 0

\* the next entry of a cyclic selector
CycleNext(list, x) == list[((IndexOrZero(list, x) + 1) % Len(list)) + 1]

ShortcutKeys == {20, 12, 19, 16, 22, 18, 15}

\* handle_shortcuts(ch) for a shortcut other than Ctrl+C
handle_shortcuts(self, ch, t) ==
    IF ch = 20
    THEN update_status([self EXCEPT !.provider = CycleNext(providers, self.provider)], t)
    ELSE IF ch = 12
    THEN update_status([self EXCEPT !.conversation_context = ~@], t)
    ELSE IF ch = 19
    THEN update_status([self EXCEPT !.streaming = ~@], t)
    ELSE IF ch = 16
    THEN update_status(
           [self EXCEPT !.personality = CycleNext(personalities, self.personality)], t)
    ELSE IF ch = 22
    THEN update_status(
           [self EXCEPT !.view_mode = IF @ = "personality" THEN "claude_raw"
                                      ELSE "personality"], t)
    ELSE IF ch = 18
    THEN update_status([self EXCEPT !.copy_mode = ~@], t)
    ELSE IF ch = 15
    THEN IF self.provider = "local"
         THEN update_status([self EXCEPT !.tools_enabled = ~@], t)
         ELSE self
    ELSE self

-----------------------------------------------------------------------------
(* run: the main loop.  Every pass redraws unless copy mode is on, then    *)
(* reads one key (or times out).                                           *)

\* what the user types in this model: a message, or only a blank
Inputs == {"hi", " "}
InputChars == {"h", "i", " "}

\* the command line with the tools flag whatever the provider
BuildCmdToolsAnyProvider(self, message) ==
    <<"npm", "run", "dev:direct", "--silent", "--", "--message", message,
      "--provider", self.provider, "--personality", self.personality>>
    \o (IF self.tools_enabled THEN <<"--tools", "enabled">> ELSE <<>>)
    \o (IF self.conversation_context THEN <<"--context", "enabled">> ELSE <<>>)

\* the command line of the backend call
BuildCmd(self, message) ==
    <<"npm", "run", "dev:direct", "--silent", "--", "--message", message,
      "--provider", self.provider, "--personality", self.personality>>
    \o (IF self.provider = "local" /\ self.tools_enabled
        THEN <<"--tools", "enabled">> ELSE <<>>)
    \o (IF self.conversation_context THEN <<"--context", "enabled">> ELSE <<>>)

sendLocals == <<sendMsg, cmd, proc, script, returnCode, outPipe, errPipe,
                stdout_lines, stderr_lines, wroteOut, wroteErr, classified,
                applied, drained, deadline>>

\* the top of the loop: if not self.copy_mode: self.draw_screen()
LoopTop == mainPc = "loop" /\ sendPc = "idle"
LoopDraw == copyDraw' = DrawUnlessCopy(Ctx(tui)).copyDraw

RunStart ==
    /\ mainPc = "start"
    /\ mainPc' = "loop"
    /\ tui' = [update_status(tui, now) EXCEPT
                 !.messages = Append(@, Msg("assistant", Welcome))]
    /\ UNCHANGED <<keys, sendPc, sendLocals, sends, copyDraw, now, ptyIn, ptyVars>>

\* getch() returned -1: advance the progress dots of a running activity
KeyTimeout ==
    /\ LoopTop /\ LoopDraw
    /\ tui' = IF tui.current_tool_activity # ""
              THEN update_status(
                     [tui EXCEPT !.tool_progress_dots = (@ + 1) % 4], now)
              ELSE tui
    /\ UNCHANGED <<mainPc, keys, sendPc, sendLocals, sends, now, ptyIn, ptyVars>>

PressShortcut(ch, cap) ==
    /\ LoopTop /\ LoopDraw
    /\ keys < cap
    /\ keys' = keys + 1
    /\ tui' = handle_shortcuts(tui, ch, now)
    /\ UNCHANGED <<mainPc, sendPc, sendLocals, sends, now, ptyIn, ptyVars>>

Shortcut(ch) == PressShortcut(ch, MaxShortcuts)

\* Ctrl+C: handle_shortcuts returns "EXIT" and the loop ends
KeyExit ==
    /\ LoopTop /\ LoopDraw
    /\ mainPc' = "exited"
    /\ UNCHANGED <<tui, keys, sendPc, sendLocals, sends, now, ptyIn, ptyVars>>

\* Ctrl+C while send_message waits for the child: KeyboardInterrupt is not
\* an Exception, so it leaves send_message and run, and main ends the client
KeyboardInterrupt ==
    /\ mainPc = "loop" /\ sendPc = "poll" /\ proc = "running"
    /\ mainPc' = "exited"
    /\ sendPc' = "interrupted"
    /\ UNCHANGED <<tui, keys, sendLocals, sends, copyDraw, now, ptyIn, ptyVars>>

KeyPrintable(ch) ==
    /\ LoopTop /\ LoopDraw
    /\ \E text \in Inputs : IsPrefixOf(tui.current_input \o ch, text)
    /\ tui' = [tui EXCEPT !.current_input = @ \o ch]
    /\ UNCHANGED <<mainPc, keys, sendPc, sendLocals, sends, now, ptyIn, ptyVars>>

KeyBackspace ==
    /\ LoopTop /\ LoopDraw
    /\ tui' = IF tui.current_input # ""
              THEN [tui EXCEPT !.current_input = SubSeq(@, 1, Len(@) - 1)]
              ELSE tui
    /\ UNCHANGED <<mainPc, keys, sendPc, sendLocals, sends, now, ptyIn, ptyVars>>

\* Enter on a blank input line does nothing
KeyEnterBlank ==
    /\ LoopTop /\ LoopDraw
    /\ Strip(tui.current_input) = ""
    /\ UNCHANGED <<tui, mainPc, keys, sendPc, sendLocals, sends, now, ptyIn, ptyVars>>

-----------------------------------------------------------------------------
(* The text of diagnostic tokens, as it appears in full_stderr.            *)

Field(name, v) ==
    IF v = Absent THEN <<>>
    ELSE IF v = NonStr THEN <<"\"" \o name \o "\":0">>
    ELSE <<"\"" \o name \o "\":\"" \o v \o "\"">>

\* ",".join(parts)
RECURSIVE JoinComma(_)
JoinComma(parts) ==
    IF parts = <<>> THEN ""
    ELSE IF Len(parts) = 1 THEN parts[1]
    ELSE parts[1] \o "," \o JoinComma(Tail(parts))

MetadataText(ev) ==
    LET step == Field("tool", ev.md_step_tool)
                  \o Field("description", ev.md_step_description)
        m == Field("source", ev.md_source) \o Field("status", ev.md_status)
               \o Field("message", ev.md_message)
               \o Field("acknowledgment", ev.md_acknowledgment)
               \o Field("operation", ev.md_operation)
               \o (IF step = <<>> THEN <<>>
                   ELSE <<"\"step\":{" \o JoinComma(step) \o "}">>)
               \o Field("attempt", ev.md_attempt) \o Field("error", ev.md_error)
    IN  IF m = <<>> THEN <<>> ELSE <<"\"metadata\":{" \o JoinComma(m) \o "}">>

EventText(ev) ==
    "{" \o JoinComma(Field("type", ev.type) \o Field("message", ev.message)
                     \o Field("content", ev.content)
                     \o Field("activity", ev.activity)
                     \o Field("tool_name", ev.tool_name) \o MetadataText(ev))
        \o "}"

TokText(tok) ==
    IF tok.k = "nl" THEN "\n"
    ELSE IF tok.k = "ws" THEN " "
    ELSE IF tok.k = "scalar" THEN "42"
    ELSE IF tok.k = "text" THEN "boom"
    ELSE IF tok.k = "json" THEN EventText(tok.ev)
    ELSE LET txt == EventText(tok.ev)
             mid == Len(txt) \div 2
         IN  IF tok.half = 1 THEN SubSeq(txt, 1, mid)
             ELSE SubSeq(txt, mid + 1, Len(txt))

RECURSIVE ToksText(_)
ToksText(toks) ==
    IF toks = <<>> THEN "" ELSE TokText(Head(toks)) \o ToksText(Tail(toks))

-----------------------------------------------------------------------------
(* send_message                                                            *)

\* the reset without the line that forgets the start time
SendResetKeepsStart(self, rt, t) ==
    update_status([self EXCEPT !.thinking = FALSE,
                               !.current_tool_activity = "",
                               !.last_response_time = rt,
                               !.total_messages_processed = @ + 1], t)

\* the reset without its last line, the call of update_status
SendResetStaleStatus(self, rt, t) ==
    [self EXCEPT !.thinking = FALSE, !.current_tool_activity = "",
                 !.tool_start_time = <<>>, !.last_response_time = rt,
                 !.total_messages_processed = @ + 1]

\* lines 706-714: the reset every chat-view send ends with
SendReset(self, rt, t) ==
    update_status(
      [self EXCEPT !.thinking = FALSE, !.current_tool_activity = "",
                   !.tool_start_time = <<>>, !.last_response_time = rt,
                   !.total_messages_processed = @ + 1], t)

\* lines 465-474: enter thinking, redraw, append the user message
\* the user message put at the head of the log instead of its end
SendEnterPrepend(self, message, t) ==
    [update_status([self EXCEPT !.thinking = TRUE], t) EXCEPT
       !.messages = <<Msg("user", message)>> \o @]

SendEnter(self, message, t) ==
    [update_status([self EXCEPT !.thinking = TRUE], t) EXCEPT
       !.messages = Append(@, Msg("user", message))]

NothingDrained == [out |-> "", err |-> <<>>]

\* send_message has returned: its locals and the Popen object are gone
LocalsGone ==
    /\ sendMsg' = "" /\ cmd' = <<>>
    /\ proc' = "none" /\ script' = <<>> /\ returnCode' = 0
    /\ outPipe' = "" /\ errPipe' = <<>>
    /\ stdout_lines' = <<>> /\ stderr_lines' = <<>>
    /\ wroteOut' = "" /\ wroteErr' = <<>>
    /\ classified' = <<>> /\ applied' = <<>>
    /\ drained' = NothingDrained
    /\ deadline' = FALSE

\* the bytes written without the newline
PtyInputBare(text) == text

\* send_to_claude_pty: the bytes written for a text
PtyInput(text) == text \o "\n"

\* Enter in the raw view: the text goes to the pty, nothing else happens;
\* the write can fail, or be skipped when the pty was never opened
KeyEnterRaw ==
    /\ LoopTop /\ LoopDraw
    /\ Strip(tui.current_input) # ""
    /\ sends < MaxSends
    /\ tui.view_mode = "claude_raw"
    /\ sends' = sends + 1
    /\ tui' = [tui EXCEPT !.current_input = ""]
    /\ \E written \in BOOLEAN :
         ptyIn' = IF written
                  THEN Append(ptyIn, PtyInput(Strip(tui.current_input))) ELSE ptyIn
    /\ UNCHANGED <<mainPc, keys, sendPc, sendLocals, now, ptyVars>>

\* Enter in the chat view, the child starts; cap bounds the sends
StartSend(cap) ==
    /\ LoopTop
    /\ Strip(tui.current_input) # ""
    /\ sends < cap
    /\ tui.view_mode # "claude_raw"
    /\ sends' = sends + 1
    /\ LET message == Strip(tui.current_input)
           self == [tui EXCEPT !.current_input = ""]
       IN  /\ tui' = SendEnter(self, message, now)
           /\ copyDraw' = draw_screen(DrawUnlessCopy(Ctx(self))).copyDraw
           /\ sendMsg' = message
           /\ cmd' = BuildCmd(self, message)
    /\ \E s \in Scripts : script' = s
    /\ proc' = "running"
    /\ returnCode' = 0
    /\ outPipe' = "" /\ errPipe' = <<>>
    /\ stdout_lines' = <<>> /\ stderr_lines' = <<>>
    /\ wroteOut' = "" /\ wroteErr' = <<>>
    /\ classified' = <<>> /\ applied' = <<>>
    /\ drained' = NothingDrained
    /\ deadline' = FALSE
    /\ sendPc' = "poll"
    /\ UNCHANGED <<mainPc, keys, now, ptyIn, ptyVars>>

KeyEnterChat == StartSend(MaxSends)

\* the result message left out when an assistant_message event of the run
\* has already been shown
AppendResultUnlessAnswered(self, m) ==
    IF \E i \in 1..Len(self.messages) : self.messages[i].immediate THEN self
    ELSE [self EXCEPT !.messages = Append(@, m)]

\* lines 651-655, 665-669, 680-684, 700-704: self.messages.append({...})
AppendResult(self, m) == [self EXCEPT !.messages = Append(@, m)]

SpawnError == "Error: [Errno 2] No such file or directory: 'npm'"

\* a spawn failure whose handler does not reach the reset after it
SpawnFailsNoReset(cap) ==
    /\ LoopTop
    /\ Strip(tui.current_input) # ""
    /\ sends < cap
    /\ tui.view_mode # "claude_raw"
    /\ sends' = sends + 1
    /\ LET message == Strip(tui.current_input)
           self == [tui EXCEPT !.current_input = ""]
       IN  /\ tui' = [SendEnter(self, message, now) EXCEPT !.messages =
                         Append(@, Msg("assistant", SpawnError))]
           /\ copyDraw' = draw_screen(DrawUnlessCopy(Ctx(self))).copyDraw
    /\ LocalsGone
    /\ UNCHANGED <<mainPc, keys, sendPc, now, ptyIn, ptyVars>>

\* Enter in the chat view, Popen raises: the generic handler reports it
SpawnFails(cap) ==
    /\ LoopTop
    /\ Strip(tui.current_input) # ""
    /\ sends < cap
    /\ tui.view_mode # "claude_raw"
    /\ sends' = sends + 1
    /\ LET message == Strip(tui.current_input)
           self == [tui EXCEPT !.current_input = ""]
           entered == SendEnter(self, message, now)
       IN  /\ \E rt \in ResponseTimes :
                tui' = SendReset(AppendResult(entered, Msg("assistant", SpawnError)),
                                 rt, now)
           /\ copyDraw' = draw_screen(DrawUnlessCopy(Ctx(self))).copyDraw
    /\ LocalsGone
    /\ UNCHANGED <<mainPc, keys, sendPc, now, ptyIn, ptyVars>>

KeyEnterSpawnFails == SpawnFails(MaxSends)

\* the child writes the next piece of its output to one of its pipes
ChildWrite ==
    /\ proc = "running" /\ script # <<>> /\ Head(script).fd # "exit"
    /\ LET w == Head(script)
       IN  /\ outPipe' = outPipe \o w.text
           /\ wroteOut' = wroteOut \o w.text
           /\ errPipe' = errPipe \o w.toks
           /\ wroteErr' = wroteErr \o w.toks
    /\ script' = Tail(script)
    /\ UNCHANGED <<tui, mainPc, keys, sendPc, sendMsg, cmd, proc, returnCode,
                   stdout_lines, stderr_lines, classified, applied, drained,
                   deadline, sends, copyDraw, now, ptyIn, ptyVars>>

\* the child has written all it writes and exits
ChildExit ==
    /\ proc = "running" /\ script # <<>> /\ Head(script).fd = "exit"
    /\ proc' = "exited"
    /\ returnCode' = Head(script).code
    /\ script' = <<>>
    /\ UNCHANGED <<tui, mainPc, keys, sendPc, sendMsg, cmd, outPipe,
                   errPipe, stdout_lines, stderr_lines, wroteOut, wroteErr,
                   classified, applied, drained, deadline, sends, copyDraw, now,
                   ptyIn, ptyVars>>

\* the 360 seconds logged as the timeout of the call pass
MaxWaitElapses ==
    /\ sendPc = "poll" /\ ~deadline
    /\ deadline' = TRUE
    /\ UNCHANGED <<tui, mainPc, keys, sendPc, sendMsg, cmd, proc, script,
                   returnCode, outPipe, errPipe, stdout_lines, stderr_lines,
                   wroteOut, wroteErr, classified, applied, drained, sends,
                   copyDraw, now, ptyIn, ptyVars>>

\* a chunk read from stderr in the loop: lines 544-551
ReadStderrChunk(c, data, t) == DrawUnlessCopy(process_system_messages(c, data, t))

\* the chunk read after the exit kept for the response but not classified
DrainStderrUnclassified(c, data, t) == c

\* what is left in a pipe at the exit is not read
RemainingDropped(lines, left, empty) == lines

\* the exit branch without its break
AfterExitBranchNoBreak == "poll"

\* the chunk read from stderr after the exit: lines 526-531
DrainStderr(c, data, t) == process_system_messages(c, data, t)

\* lines 525-530: what is left in a pipe is appended when there is any
Remaining(lines, left, empty) == IF left # empty THEN Append(lines, left) ELSE lines

\* line 532: the position after the exit branch, which breaks out of the loop
AfterExitBranch == "finish"

\* one pass of the poll loop while the child runs: select, then read every
\* ready pipe (stdout first) to the end
PollRead(readOut, readErr) ==
    /\ sendPc = "poll" /\ proc = "running"
    /\ readOut \/ readErr
    /\ readOut => outPipe # ""
    /\ readErr => errPipe # <<>>
    /\ stdout_lines' = IF readOut THEN Append(stdout_lines, outPipe) ELSE stdout_lines
    /\ outPipe' = IF readOut THEN "" ELSE outPipe
    /\ stderr_lines' = IF readErr THEN Append(stderr_lines, errPipe) ELSE stderr_lines
    /\ errPipe' = IF readErr THEN <<>> ELSE errPipe
    /\ LET c == IF readErr THEN ReadStderrChunk(Ctx(tui), errPipe, now) ELSE Ctx(tui)
       IN  /\ tui' = c.self
           /\ classified' = c.classified
           /\ applied' = c.applied
           /\ copyDraw' = c.copyDraw
    /\ UNCHANGED <<mainPc, keys, sendPc, sendMsg, cmd, proc, script, returnCode,
                   wroteOut, wroteErr, drained, deadline, sends, now, ptyIn,
                   ptyVars>>

\* a pass of the poll loop in which select times out
PollIdle ==
    /\ sendPc = "poll" /\ proc = "running"
    /\ UNCHANGED vars

\* the pass that finds the child gone: read what is left, then break
PollExit ==
    /\ sendPc = "poll" /\ proc = "exited"
    /\ stdout_lines' = Remaining(stdout_lines, outPipe, "")
    /\ outPipe' = ""
    /\ stderr_lines' = Remaining(stderr_lines, errPipe, <<>>)
    /\ drained' = [out |-> outPipe, err |-> errPipe]
    /\ errPipe' = <<>>
    /\ LET c == IF errPipe # <<>> THEN DrainStderr(Ctx(tui), errPipe, now) ELSE Ctx(tui)
       IN  /\ tui' = c.self
           /\ classified' = c.classified
           /\ applied' = c.applied
           /\ copyDraw' = c.copyDraw
    /\ sendPc' = AfterExitBranch
    /\ UNCHANGED <<mainPc, keys, sendMsg, cmd, proc, script, returnCode,
                   wroteOut, wroteErr, deadline, sends, now, ptyIn, ptyVars>>

\* the result message whose error text has no default
ResultMessageNoDefault(return_code, full_stdout, full_stderr) ==
    IF return_code = 0 THEN Msg("assistant", ResultContent(full_stdout))
    ELSE Msg("assistant", "Error: " \o full_stderr)

\* the assistant message of a finished run: lines 575-684
ResultMessage(return_code, full_stdout, full_stderr) ==
    IF return_code = 0 THEN Msg("assistant", ResultContent(full_stdout))
    ELSE Msg("assistant",
             "Error: " \o (IF full_stderr # "" THEN full_stderr ELSE "Command failed"))

\* lines 560-714: wait, build the result message, reset, return
SendFinish ==
    /\ sendPc = "finish"
    /\ \E rt \in ResponseTimes :
         tui' = SendReset(
                  AppendResult(tui,
                     ResultMessage(returnCode, Join(stdout_lines),
                                   ToksText(Flatten(stderr_lines)))),
                  rt, now)
    /\ sendPc' = "idle"
    /\ LocalsGone
    /\ UNCHANGED <<mainPc, keys, sends, copyDraw, now, ptyIn, ptyVars>>

-----------------------------------------------------------------------------
(* The client: the main loop, send_message and the backend child.          *)

\* the client before run(), but for the object itself
ClientRest ==
    /\ mainPc = "start"
    /\ keys = 0
    /\ sendPc = "idle"
    /\ sendMsg = "" /\ cmd = <<>>
    /\ proc = "none" /\ script = <<>> /\ returnCode = 0
    /\ outPipe = "" /\ errPipe = <<>>
    /\ stdout_lines = <<>> /\ stderr_lines = <<>>
    /\ wroteOut = "" /\ wroteErr = <<>>
    /\ classified = <<>> /\ applied = <<>>
    /\ drained = NothingDrained
    /\ deadline = FALSE
    /\ sends = 0
    /\ copyDraw = FALSE
    /\ now = 0
    /\ ptyIn = <<>>

ClientInit == tui = InitTui /\ ClientRest

PtyInit ==
    /\ claude_process = "running"
    /\ claude_output_buffer = <<>>
    /\ ptyPending = <<>>
    /\ ptyWritten = 0
    /\ ptyBursts = 0
    /\ readerPc = "test"
    /\ lastAppend = [before |-> 0, added |-> 0]
    /\ drawPc = "idle"
    /\ height = 0
    /\ display_lines = <<>>
    /\ aliased = FALSE
    /\ drawI = 0
    /\ shown = <<>>
    /\ seenViews = {}

Init == ClientInit /\ PtyInit

Next ==
    \/ RunStart
    \/ KeyTimeout
    \/ \E ch \in ShortcutKeys : Shortcut(ch)
    \/ KeyExit
    \/ KeyboardInterrupt
    \/ \E ch \in InputChars : KeyPrintable(ch)
    \/ KeyBackspace
    \/ KeyEnterBlank
    \/ KeyEnterRaw
    \/ KeyEnterChat
    \/ KeyEnterSpawnFails
    \/ ChildWrite
    \/ ChildExit
    \/ \E readOut, readErr \in BOOLEAN : PollRead(readOut, readErr)
    \/ PollIdle
    \/ PollExit
    \/ SendFinish

Spec == Init /\ [][Next]_vars

\* the client with the clock of the maximum wait
NextTimeout == Next \/ MaxWaitElapses

SpecTimeout == Init /\ [][NextTimeout]_vars

\* one user who types and sends, and the backend child.  The main thread
\* keeps running its poll loop, so the pass that finds the child gone and
\* the code after the loop are taken once they can be.
NextRunner ==
    \/ RunStart
    \/ \E ch \in InputChars : KeyPrintable(ch)
    \/ KeyEnterChat
    \/ KeyEnterSpawnFails
    \/ ChildWrite
    \/ ChildExit
    \/ \E readOut, readErr \in BOOLEAN : PollRead(readOut, readErr)
    \/ PollIdle
    \/ PollExit
    \/ SendFinish

\* the two steps of the main thread that fairness is about, as the position
\* in send_message shows them
PollExitStep == sendPc = "poll" /\ proc = "exited" /\ sendPc' = AfterExitBranch

SendFinishStep == sendPc = "finish" /\ sendPc' = "idle"

FairSpec ==
    /\ Init /\ [][NextRunner]_vars
    /\ WF_sendPc(PollExitStep) /\ WF_sendPc(SendFinishStep)

-----------------------------------------------------------------------------
(* The pass-through session: the child on the pseudo-terminal, the reader  *)
(* thread (read_claude_output) and the raw-view redraw                     *)
(* (draw_claude_raw_screen).  A line is the number of its place in the     *)
(* child's output.  The two threads interleave between the statements      *)
(* that touch self.claude_output_buffer.                                   *)

\* len(self.claude_output_buffer) > 1000
BufferCap == 1000
\* self.claude_output_buffer[-500:]
BufferKeep == 500
\* os.read(self.claude_master, 1024): a chunk is at most 1024 lines
ReadSize == 1024

\* the sizes, in lines, of the bursts the child writes
Bursts == {1, 2, 600}
\* output_height of a redraw
Heights == {2, 3}

\* Python: list[-n:] for n > 0
LastN(list, n) ==
    IF Len(list) <= n THEN list ELSE SubSeq(list, Len(list) - n + 1, Len(list))

\* lines a..b of the child's output
LineRange(a, b) == [i \in 1..(b - a + 1) |-> a + i - 1]

\* self.claude_output_buffer.extend(data.splitlines())
Extend(buffer, data) == buffer \o data

\* the size check whose slice is not assigned back
TruncateOff(buffer) == buffer

\* the size check keeping the oldest lines
TruncateHead(buffer) ==
    IF Len(buffer) > BufferCap THEN SubSeq(buffer, 1, BufferKeep) ELSE buffer

\* lines 159-160: the buffer after the size check
Truncate(buffer) ==
    IF Len(buffer) > BufferCap THEN LastN(buffer, BufferKeep) ELSE buffer

\* the expression display_lines is bound to when the buffer is longer than
\* the screen: a copy of its end
DisplaySlice(buffer, output_height) == LastN(buffer, output_height)

\* what a redraw of height h shows of buffer state b when it shows b alone
View(b, h) == LastN(b, h)

Redrawing == drawPc \notin {"idle", "done"}

\* ghost: a new buffer state came to exist during a redraw
Seen(b) == IF Redrawing THEN seenViews \cup {View(b, height)} ELSE seenViews

PtyChildWrite(n) ==
    /\ claude_process = "running"
    /\ ptyBursts < MaxPtyWrites
    /\ ptyBursts' = ptyBursts + 1
    /\ ptyWritten' = ptyWritten + n
    /\ ptyPending' = ptyPending \o LineRange(ptyWritten + 1, ptyWritten + n)
    /\ UNCHANGED <<claude_process, claude_output_buffer, readerPc, lastAppend,
                   drawPc, height, display_lines, aliased, drawI, shown,
                   seenViews, clientVars>>

PtyChildExit ==
    /\ claude_process = "running"
    /\ claude_process' = "exited"
    /\ UNCHANGED <<claude_output_buffer, ptyPending, ptyWritten, ptyBursts,
                   readerPc, lastAppend, drawPc, height, display_lines, aliased,
                   drawI, shown, seenViews, clientVars>>

\* line 152: the loop condition
ReaderTest ==
    /\ readerPc = "test"
    /\ readerPc' = IF claude_process = "running" THEN "select" ELSE "done"
    /\ UNCHANGED <<claude_process, claude_output_buffer, ptyPending, ptyWritten,
                   ptyBursts, lastAppend, drawPc, height, display_lines, aliased,
                   drawI, shown, seenViews, clientVars>>

\* line 154: select times out after 0.1 s with nothing to read
ReaderSelectTimeout ==
    /\ readerPc = "select"
    /\ ptyPending = <<>>
    /\ readerPc' = "test"
    /\ UNCHANGED <<claude_process, claude_output_buffer, ptyPending, ptyWritten,
                   ptyBursts, lastAppend, drawPc, height, display_lines, aliased,
                   drawI, shown, seenViews, clientVars>>

\* the lines one os.read delivers: what is there, up to the chunk size
ChunkLen(pending) == IF Len(pending) < ReadSize THEN Len(pending) ELSE ReadSize

\* lines 154-157: read a chunk and extend the buffer in place
ReaderRead ==
    /\ readerPc = "select"
    /\ ptyPending # <<>>
    /\ LET k == ChunkLen(ptyPending)
           data == SubSeq(ptyPending, 1, k)
       IN  /\ claude_output_buffer' = Extend(claude_output_buffer, data)
           /\ display_lines' = IF aliased THEN Extend(display_lines, data)
                               ELSE display_lines
           /\ seenViews' = Seen(Extend(claude_output_buffer, data))
           /\ ptyPending' = SubSeq(ptyPending, k + 1, Len(ptyPending))
           /\ lastAppend' = [before |-> Len(claude_output_buffer), added |-> k]
    /\ readerPc' = "check"
    /\ UNCHANGED <<claude_process, ptyWritten, ptyBursts, drawPc, height,
                   aliased, drawI, shown, clientVars>>

\* lines 159-160: a buffer over the cap is replaced by a copy of its end
ReaderCheck ==
    /\ readerPc = "check"
    /\ claude_output_buffer' = Truncate(claude_output_buffer)
    /\ aliased' = (aliased /\ Truncate(claude_output_buffer) = claude_output_buffer)
    /\ seenViews' = Seen(Truncate(claude_output_buffer))
    /\ readerPc' = "test"
    /\ UNCHANGED <<claude_process, ptyPending, ptyWritten, ptyBursts, lastAppend,
                   drawPc, height, display_lines, drawI, shown, clientVars>>

\* line 395: if self.claude_output_buffer
DrawBegin(h) ==
    /\ drawPc \in {"idle", "done"}
    /\ height' = h
    /\ shown' = <<>>
    /\ seenViews' = {View(claude_output_buffer, h)}
    /\ display_lines' = <<>>
    /\ aliased' = FALSE
    /\ drawI' = 0
    /\ drawPc' = IF claude_output_buffer # <<>> THEN "cond" ELSE "done"
    /\ UNCHANGED <<claude_process, claude_output_buffer, ptyPending, ptyWritten,
                   ptyBursts, readerPc, lastAppend, clientVars>>

\* line 396: the condition len(self.claude_output_buffer) > output_height
DrawCond ==
    /\ drawPc = "cond"
    /\ drawPc' = IF Len(claude_output_buffer) > height THEN "slice" ELSE "alias"
    /\ UNCHANGED <<claude_process, claude_output_buffer, ptyPending, ptyWritten,
                   ptyBursts, readerPc, lastAppend, height, display_lines,
                   aliased, drawI, shown, seenViews, clientVars>>

\* line 396: display_lines = self.claude_output_buffer[-output_height:]
DrawSlice ==
    /\ drawPc = "slice"
    /\ display_lines' = DisplaySlice(claude_output_buffer, height)
    /\ aliased' = FALSE
    /\ drawPc' = "loop"
    /\ UNCHANGED <<claude_process, claude_output_buffer, ptyPending, ptyWritten,
                   ptyBursts, readerPc, lastAppend, height, drawI, shown,
                   seenViews, clientVars>>

\* line 396: display_lines = self.claude_output_buffer, the list itself
DrawAlias ==
    /\ drawPc = "alias"
    /\ display_lines' = claude_output_buffer
    /\ aliased' = TRUE
    /\ drawPc' = "loop"
    /\ UNCHANGED <<claude_process, claude_output_buffer, ptyPending, ptyWritten,
                   ptyBursts, readerPc, lastAppend, height, drawI, shown,
                   seenViews, clientVars>>

\* lines 398-406: one pass of the loop over display_lines
DrawLine ==
    /\ drawPc = "loop"
    /\ IF drawI < Len(display_lines) /\ drawI < height
       THEN /\ shown' = Append(shown, display_lines[drawI + 1])
            /\ drawI' = drawI + 1
            /\ UNCHANGED <<drawPc, display_lines, aliased>>
       ELSE /\ drawPc' = "done"
            /\ display_lines' = <<>>
            /\ aliased' = FALSE
            /\ UNCHANGED <<shown, drawI>>
    /\ UNCHANGED <<claude_process, claude_output_buffer, ptyPending, ptyWritten,
                   ptyBursts, readerPc, lastAppend, height, seenViews, clientVars>>

\* the child, the reader thread and the raw-view redraw
NextPty ==
    \/ \E n \in Bursts : PtyChildWrite(n)
    \/ PtyChildExit
    \/ ReaderTest
    \/ ReaderSelectTimeout
    \/ ReaderRead
    \/ ReaderCheck
    \/ \E h \in Heights : DrawBegin(h)
    \/ DrawCond
    \/ DrawSlice
    \/ DrawAlias
    \/ DrawLine

SpecPty == Init /\ [][NextPty]_vars

-----------------------------------------------------------------------------
(* process_system_messages on its own: a session in the middle of a send   *)
(* is handed diagnostic lines, one sub-chunk at a time.                    *)

EvBadActivity == [BaseEvent EXCEPT !.type = "tool_activity", !.activity = NonStr]
EvBlankActivity == [BaseEvent EXCEPT !.type = "tool_activity", !.activity = " "]
EvNoiseDone == [BaseEvent EXCEPT !.type = "engine",
                                 !.message = "ollama_queue_processing_complete"]
EvRouterDone == [BaseEvent EXCEPT !.type = "engine",
                                  !.message = "intelligence_router_complete"]
EvBoth == [BaseEvent EXCEPT !.type = "engine",
                            !.message = "tools_agent_start ollama_request_enqueued"]
EvFailed == [BaseEvent EXCEPT !.type = "engine", !.message = "tools_agent_failed",
                              !.md_error = "disk full"]
EvFileAck ==
    [BaseEvent EXCEPT !.type = "engine",
                      !.message = "file_operations_user_acknowledgment",
                      !.md_acknowledgment = "Let me look"]
EvErrMarker == [BaseEvent EXCEPT !.type = "error",
                                 !.message = "all_json_blocks_failed"]
EvErrPlain == [BaseEvent EXCEPT !.type = "error", !.message = "connection lost"]
EvBusy ==
    [BaseEvent EXCEPT !.type = "engine", !.message = "system_state_changed",
                      !.md_status = "busy", !.md_message = "Ani is busy"]
EvLog == [BaseEvent EXCEPT !.type = "log", !.message = "ollama_request_enqueued"]
EvSay == [BaseEvent EXCEPT !.type = "assistant_message", !.content = "One moment",
                           !.md_source = "engine"]
EvSayBlank == [BaseEvent EXCEPT !.type = "assistant_message", !.content = " \n",
                                !.md_source = "personality_acknowledgment"]
EvReadySilent ==
    [BaseEvent EXCEPT !.type = "engine", !.message = "system_state_changed",
                      !.md_status = "ready"]
EvReadyNoisy ==
    [BaseEvent EXCEPT !.type = "engine",
                      !.message = "component_status_changed system_state_changed",
                      !.md_status = "ready", !.md_message = "Ani is ready"]

EvDeepseek ==
    [BaseEvent EXCEPT !.type = "engine",
                      !.message = "deepseek_attempt ollama_request_success",
                      !.md_attempt = "2"]

\* the events a diagnostic line can carry
Events ==
    {EvActivity, EvClear, EvBadActivity, EvBlankActivity, EvAck, EvBlurb, EvReady,
     EvBusy, EvRouter, EvRouterDone, EvSuccess, EvNoise, EvNoiseDone, EvBoth,
     EvFailed, EvFileAck, EvErrMarker, EvErrPlain, EvLog, EvReadySilent,
     EvReadyNoisy, EvSay, EvSayBlank, EvDeepseek}

\* a line that is empty, blank, or not JSON
MalformedLines == {<<>>, <<WS>>, <<Garbage>>}

\* the lines of diagnostic text, without their newline
Lines == {<<J(ev)>> : ev \in Events} \cup MalformedLines \cup {<<Scalar>>}

\* the text of a sequence of lines, each ended by its newline
RECURSIVE LinesText(_)
LinesText(lines) ==
    IF lines = <<>> THEN <<>>
    ELSE Head(lines) \o <<NL>> \o LinesText(Tail(lines))

\* the session in the middle of a send: run() has started, the user message
\* is in the log and thinking is on
MidSend(copy_mode) ==
    SendEnter([update_status(InitTui, 0) EXCEPT
                 !.messages = <<Msg("assistant", Welcome)>>,
                 !.copy_mode = copy_mode], "hi", 0)

LinesFed == Len(SelectSeq(Flatten(classified), LAMBDA tok : tok.k = "nl"))

InitClassify ==
    /\ \E copy_mode \in BOOLEAN : tui = MidSend(copy_mode)
    /\ ClientRest
    /\ PtyInit

\* one call of process_system_messages with the next lines as its chunk
Classify(lines) ==
    /\ LinesFed + Len(lines) <= MaxLines
    /\ LET c == process_system_messages(Ctx(tui), LinesText(lines), now)
       IN  /\ tui' = c.self
           /\ classified' = c.classified
           /\ applied' = c.applied
           /\ copyDraw' = c.copyDraw
    /\ UNCHANGED <<mainPc, keys, sendPc, sendMsg, cmd, proc, script, returnCode,
                   outPipe, errPipe, stdout_lines, stderr_lines, wroteOut,
                   wroteErr, drained, deadline, sends, now, ptyIn, ptyVars>>

\* sequences of one to n lines
LineSeqs(n) == UNION {[1..k -> Lines] : k \in 1..n}

NextClassify == \E lines \in LineSeqs(MaxLines - LinesFed) : Classify(lines)

SpecClassify == InitClassify /\ [][NextClassify]_vars

-----------------------------------------------------------------------------
(* A user who sends again after a send: starting the child can fail at     *)
(* every send.                                                             *)

NextRetry ==
    \/ RunStart
    \/ \E ch \in InputChars : KeyPrintable(ch)
    \/ StartSend(MaxAttempts)
    \/ SpawnFails(MaxAttempts)
    \/ ChildWrite
    \/ ChildExit
    \/ \E readOut, readErr \in BOOLEAN : PollRead(readOut, readErr)
    \/ PollIdle
    \/ PollExit
    \/ SendFinish

SpecRetry == Init /\ [][NextRetry]_vars

-----------------------------------------------------------------------------
(* One send on its own: the poll loop and the code after it, against a     *)
(* backend child whose output is put together from pieces.                 *)

RespA == "{\"content\":\"a\",\"metadata\":{}}"
RespB == "{\"content\":\"*b*\",\"metadata\":{\"k\":1}}"
\* a response whose content holds a closing brace
RespBrace == "{\"content\":\"}\",\"metadata\":{}}"
\* a response whose content is a number
RespNumber == "{\"content\":5,\"metadata\":{}}"
\* objects that are not responses: no metadata, no content
ObjContentOnly == "{\"content\":\"*c*\"}"
ObjOther == "{\"a\":1}"

\* pieces of primary output
OutPieces ==
    {"hi ", "{", "42", RespA, RespB, RespBrace, RespNumber, ObjContentOnly, ObjOther}

\* pieces of diagnostic output: plain text, and an acknowledgment event
ErrPieces == {<<Garbage>>, <<J(EvAck), NL>>}

Pieces == {WOut(text) : text \in OutPieces} \cup {WErr(toks) : toks \in ErrPieces}

ExitCodes == {0, 1}

\* a child that makes up to MaxPieces writes and exits
BackendScripts ==
    {ps \o <<WExit(code)>> :
        ps \in UNION {[1..k -> Pieces] : k \in 0..MaxPieces}, code \in ExitCodes}

\* send_message("hi") has started a child and entered its poll loop
SendStarted(scripts) ==
    /\ tui = MidSend(FALSE)
    /\ mainPc = "loop"
    /\ keys = 0
    /\ sendPc = "poll"
    /\ sendMsg = "hi" /\ cmd = BuildCmd(InitTui, "hi")
    /\ proc = "running" /\ script \in scripts /\ returnCode = 0
    /\ outPipe = "" /\ errPipe = <<>>
    /\ stdout_lines = <<>> /\ stderr_lines = <<>>
    /\ wroteOut = "" /\ wroteErr = <<>>
    /\ classified = <<>> /\ applied = <<>>
    /\ drained = NothingDrained
    /\ deadline = FALSE
    /\ sends = 1
    /\ copyDraw = FALSE
    /\ now = 0
    /\ ptyIn = <<>>
    /\ PtyInit

InitBackend == SendStarted(BackendScripts)

NextBackend ==
    \/ ChildWrite
    \/ ChildExit
    \/ \E readOut, readErr \in BOOLEAN : PollRead(readOut, readErr)
    \/ PollIdle
    \/ PollExit
    \/ SendFinish

SpecBackend == InitBackend /\ [][NextBackend]_vars

-----------------------------------------------------------------------------
(* One send against a backend that answers with a well-formed response,    *)
(* whose content is put together from fragments: a letter, the emphasis    *)
(* markers, a space, a newline, a quote, a backslash, and the two-character*)
(* escapes backslash-n and backslash-quote.                                *)

Fragments == {"a", "*", "_", " ", "\n", "\"", "\\", "\\n", "\\\""}

RECURSIVE Concat(_)
Concat(fs) == IF fs = <<>> THEN "" ELSE Head(fs) \o Concat(Tail(fs))

Contents == {Concat(fs) : fs \in UNION {[1..k -> Fragments] : k \in 0..MaxFragments}}

\* the backend's JSON encoding of a text, between the quotes
RECURSIVE JsonEscape(_)
JsonEscape(s) ==
    IF s = "" THEN ""
    ELSE LET ch == SubSeq(s, 1, 1)
         IN  (IF ch = "\"" THEN "\\\""
              ELSE IF ch = "\\" THEN "\\\\"
              ELSE IF ch = "\n" THEN "\\n"
              ELSE ch) \o JsonEscape(SubSeq(s, 2, Len(s)))

\* the response the backend prints for a content
ResponseFor(content) ==
    "{\"content\":\"" \o JsonEscape(content) \o "\",\"metadata\":{}}"

FormatScripts == {<<WOut(ResponseFor(content)), WExit(0)>> : content \in Contents}

InitFormat == SendStarted(FormatScripts)

SpecFormat == InitFormat /\ [][NextBackend]_vars

-----------------------------------------------------------------------------
(* Properties of the chat client                                           *)

RECURSIVE IsSubseq(_, _)
IsSubseq(a, b) ==
    IF a = <<>> THEN TRUE
    ELSE IF b = <<>> THEN FALSE
    ELSE IF Head(a) = Head(b) THEN IsSubseq(Tail(a), Tail(b))
    ELSE IsSubseq(a, Tail(b))

\* the events of diagnostic text, in the order the child wrote them
EventsOf(toks) ==
    LET first == SelectSeq(toks, LAMBDA tok : tok.k = "json"
                                      \/ (tok.k = "frag" /\ tok.half = 1))
    IN  [i \in 1..Len(first) |-> first[i].ev]

\* the newest message of the log; none before run() has added the welcome
LastMessage ==
    IF tui.messages = <<>> THEN Msg("none", "") ELSE tui.messages[Len(tui.messages)]

\* C1: the message log is append-only: every step of the client, whatever
\* the action, leaves the messages it held in place and in order, and only
\* adds after them.
C1_AppendOnly == [][IsPrefixOf(tui.messages, tui'.messages)]_vars

\* a send has returned with the user message, an event's message and the
\* result behind the welcome message
C1_Witness ==
    /\ sendPc = "idle"
    /\ Len(tui.messages) >= 4
    /\ tui.messages[2].role = "user"
    /\ LastMessage.role = "assistant"

\* C2: diagnostic events are applied in the order they arrived: the events
\* dispatched so far are, in order, events of the diagnostic text the child
\* has written.
C2_ArrivalOrder == IsSubseq(applied, EventsOf(wroteErr))

\* two different events of two reads have been applied
C2_Witness ==
    /\ Len(classified) >= 2
    /\ Len(applied) >= 2
    /\ applied[1] # applied[2]

\* C3: every diagnostic chunk read is handed to the classifier exactly once,
\* before the next pass of the poll loop; the chunks classified are the
\* chunks accumulated, so their concatenation is the accumulated text.
C3_ClassifiedOnce ==
    /\ classified = stderr_lines
    /\ ToksText(Flatten(classified)) = ToksText(Flatten(stderr_lines))

\* the loop is over, with a chunk read while the child ran and a chunk read
\* after its exit
C3_Witness ==
    /\ sendPc = "finish"
    /\ Len(stderr_lines) >= 2
    /\ drained.err # <<>>

\* C4: no output is lost to the exit: once the loop has seen the child gone,
\* the text accumulated from each pipe is all the child wrote to it.
C4_NoOutputLost ==
    sendPc = "finish" =>
        /\ Join(stdout_lines) = wroteOut
        /\ Flatten(stderr_lines) = wroteErr

\* the read after the exit found output in both pipes
C4_Witness ==
    /\ sendPc = "finish"
    /\ drained.out # ""
    /\ drained.err # <<>>

\* C5: a request that exceeds the maximum wait times out: a step of
\* send_message taken while the child still runs past the deadline ends the
\* send with "Error: Request timed out" and the child killed.
C5_RequestTimesOut ==
    [][(/\ deadline
        /\ sendPc = "poll"
        /\ proc = "running"
        /\ <<tui, sendPc, stdout_lines, stderr_lines>>'
              # <<tui, sendPc, stdout_lines, stderr_lines>>)
       => (/\ sendPc' = "idle"
           /\ proc' = "killed"
           /\ tui'.messages[Len(tui'.messages)].content
                 = "Error: Request timed out")]_vars

\* C6: once the child has exited, send_message leaves its loop and returns
\* with its result message appended.
C6_Terminates ==
    (sendPc = "poll" /\ proc = "exited")
        ~> (sendPc = "idle" /\ LastMessage.role = "assistant")

\* a send whose child exited has returned with the child's answer
C6_Witness ==
    /\ sendPc = "idle"
    /\ tui.total_messages_processed >= 1
    /\ LastMessage.content = "pong"

-----------------------------------------------------------------------------
(* Properties of the pty buffer                                            *)

\* the lines the reader has taken from the pty so far
LinesRead == ptyWritten - Len(ptyPending)

Overflowed == lastAppend.before + lastAppend.added > BufferCap

\* C7 as stated: the buffer never holds more than 1000 lines, in any
\* state, the one between an append and its truncation included.
C7_NeverOverCap == Len(claude_output_buffer) <= BufferCap

\* C7: the buffer holds at most 1000 lines whenever the reader is not
\* between an append and its size check; in between it holds at most 1000
\* lines and one read.
C7_CapAfterCheck ==
    /\ readerPc # "check" => Len(claude_output_buffer) <= BufferCap
    /\ Len(claude_output_buffer) <= BufferCap + ReadSize

\* an append took the buffer past the cap and the size check has run
C7_Witness ==
    /\ readerPc # "check"
    /\ Overflowed
    /\ Len(claude_output_buffer) = BufferKeep

\* C8 as stated: after an append that takes the buffer past 1000 lines its
\* length is 500 plus the number of lines just appended.
C8_KeepPlusAppended ==
    (readerPc # "check" /\ Overflowed)
        => Len(claude_output_buffer) = BufferKeep + lastAppend.added

\* C8: after an append that takes the buffer past 1000 lines it holds
\* exactly the 500 most recent lines read, in their order.
C8_KeepsMostRecent ==
    (readerPc # "check" /\ Overflowed)
        => claude_output_buffer = LineRange(LinesRead - BufferKeep + 1, LinesRead)

\* the size check has cut a buffer that two appends had filled
C8_Witness ==
    /\ readerPc = "test"
    /\ Overflowed
    /\ lastAppend.before > 0
    /\ claude_output_buffer[BufferKeep] = LinesRead

\* C9: a redraw of the raw view shows the most recent min(len, height)
\* lines of one state the buffer was in during the redraw.
C9_Snapshot == drawPc = "done" => shown \in seenViews

\* C10: the reader stops only when the child has exited and nothing it
\* wrote is left unread.
C10_ReaderDrains ==
    readerPc = "done" => (claude_process = "exited" /\ ptyPending = <<>>)

-----------------------------------------------------------------------------
(* Properties of the classifier                                            *)

\* a fresh classifier context around a session
Ctx0(self) == [self |-> self, classified |-> <<>>, applied |-> <<>>,
               copyDraw |-> FALSE, raised |-> FALSE]

\* the session the run of the classifier started from
StartSelf == MidSend(tui.copy_mode)

\* the chunks handed to the classifier one call after the other
RECURSIVE Fold(_, _)
Fold(c, chunks) ==
    IF chunks = <<>> THEN c
    ELSE Fold(process_system_messages(c, Head(chunks), now), Tail(chunks))

\* the session before the last call, and the chunk of the last call
PrevSelf == Fold(Ctx0(StartSelf), SubSeq(classified, 1, Len(classified) - 1)).self

LastChunk == classified[Len(classified)]

\* the last call was handed this one line
LastLineIs(line) == classified # <<>> /\ LastChunk = LinesText(<<line>>)

\* the last call was handed the one event ev
LastEventIs(ev) == LastLineIs(<<J(ev)>>)

\* the session had all the lines been handed over in one call
WholeSelf == process_system_messages(Ctx0(StartSelf), Flatten(classified), now).self

\* message log, status, activity label and presence of a start time
Observed(self) ==
    <<self.messages, self.status, self.current_tool_activity,
      self.tool_start_time # <<>>>>

\* C11: classification is line-atomic: the lines of a chunk handed over in
\* consecutive sub-chunks leave the message log, the status, the activity
\* label and the presence of a start time as handing the chunk over whole.
C11_LineAtomic == Observed(tui) = Observed(WholeSelf)

\* the lines of a chunk, and the chunk without its malformed lines
ChunkLines(chunk) == SplitLines(StripToks(chunk), <<>>)

WellFormedOnly(chunk) ==
    LinesText(SelectSeq(ChunkLines(chunk), LAMBDA line : line \notin MalformedLines))

\* C12: a line that is empty, blank or not JSON changes nothing, raises
\* nothing and does not stop the lines after it: the last call left the
\* session as the same chunk without its malformed lines does, and a chunk
\* of malformed lines alone left it as it was.
C12_MalformedSkipped ==
    classified # <<>> =>
        /\ tui = process_system_messages(Ctx0(PrevSelf), WellFormedOnly(LastChunk),
                                         now).self
        /\ (\A i \in 1..Len(ChunkLines(LastChunk)) :
                ChunkLines(LastChunk)[i] \in MalformedLines) => tui = PrevSelf

\* a chunk of text that is not JSON and then a tool blurb: the blurb's
\* message is in the log
C12_Witness ==
    /\ classified # <<>>
    /\ LastChunk = LinesText(<<<<Garbage>>, <<J(EvBlurb)>>>>)
    /\ Len(tui.messages) = Len(PrevSelf.messages) + 1
    /\ LastMessage.tool = "ls"

\* an engine event whose message is exactly a noise keyword
IsNoiseEvent(ev) ==
    /\ ev.type = "engine"
    /\ \E i \in 1..Len(debug_noise_keywords) : ev.message = debug_noise_keywords[i]

\* status line, activity indicator and message log
Indicators(self) ==
    <<self.status, self.current_tool_activity, self.tool_start_time,
      self.tool_progress_dots, self.messages>>

\* C13: an engine event whose message is exactly a noise keyword changes
\* neither the status line nor the activity indicator nor the message log,
\* whatever the session it arrives in.
C13_NoiseIgnored ==
    \A ev \in Events :
        (IsNoiseEvent(ev) /\ LastEventIs(ev)) => Indicators(tui) = Indicators(PrevSelf)

\* the noise event "ollama_queue_processing_complete" arrived while an
\* activity was shown, and the activity is still shown
C13_Witness ==
    /\ LastEventIs(EvNoiseDone)
    /\ PrevSelf.current_tool_activity # ""
    /\ tui.current_tool_activity = PrevSelf.current_tool_activity

\* an engine event whose message contains an important keyword
IsImportantEvent(ev) ==
    ev.type = "engine" /\ ContainsAny(ev.message, important_keywords)

\* the last call wrote the status line or appended a message: seen by
\* handing its chunk to the session before it with the status line blanked
LastCallShowed ==
    LET r == process_system_messages(Ctx0([PrevSelf EXCEPT !.status = ""]),
                                     LastChunk, now).self
    IN  r.status # "" \/ Len(r.messages) > Len(PrevSelf.messages)

\* C14: an engine event whose message contains an important keyword passes
\* the noise filter and sets the status or appends a message, whatever noise
\* keywords the message contains as well.
C14_ImportantShown ==
    \A ev \in Events :
        (IsImportantEvent(ev) /\ LastEventIs(ev))
            => (~should_ignore_message(ev.message, ev.type) /\ LastCallShowed)

\* the events dispatched before the last call
PrevApplied ==
    Fold(Ctx0(StartSelf), SubSeq(classified, 1, Len(classified) - 1)).applied

\* the event of the last call passed the filter and was dispatched
LastCallDispatched == Len(applied) > Len(PrevApplied)

HasMarker(message) ==
    Contains(message, "all_json_blocks_failed")
        \/ Contains(message, "deepseek_json_debug")

\* C15 as stated: an event of kind "error" is dropped unless its message
\* contains a diagnostic marker; kinds other than engine and error pass.
C15_DroppedUnlessMarked ==
    \A ev \in Events :
        LastEventIs(ev) =>
            /\ ev.type = "error" =>
                  /\ should_ignore_message(ev.message, ev.type)
                        <=> ~HasMarker(ev.message)
                  /\ LastCallDispatched <=> HasMarker(ev.message)
            /\ ev.type \notin {"engine", "error"} => LastCallDispatched

\* C15: an event of kind "error" is dropped exactly when its message
\* contains a diagnostic marker, and passes otherwise; kinds other than
\* engine and error pass.
C15_DroppedWhenMarked ==
    \A ev \in Events :
        LastEventIs(ev) =>
            /\ ev.type = "error" =>
                  /\ should_ignore_message(ev.message, ev.type)
                        <=> HasMarker(ev.message)
                  /\ LastCallDispatched <=> ~HasMarker(ev.message)
            /\ ev.type \notin {"engine", "error"} => LastCallDispatched

\* an error event without a marker has passed the filter
C15_Witness == LastEventIs(EvErrPlain) /\ LastCallDispatched

\* a tool_activity event whose activity field is a string
IsActivityEvent(ev) == ev.type = "tool_activity" /\ Get(ev.activity, "") # NonStr

\* C16: after a tool_activity event the activity indicator reflects that
\* event alone: a non-blank activity is the label, has a start time and is
\* shown in the recomputed status line; a blank one leaves no label, no
\* start time and a status line showing neither a label nor the earlier one.
C16_ActivityReflectsEvent ==
    \A ev \in Events :
        (IsActivityEvent(ev) /\ LastEventIs(ev)) =>
            LET activity == Get(ev.activity, "")
            IN  /\ tui.status = StatusText(tui, now)
                /\ IF Strip(activity) # ""
                   THEN /\ tui.current_tool_activity = activity
                        /\ tui.tool_start_time # <<>>
                        /\ Contains(tui.status, " | [tool] " \o activity)
                   ELSE /\ tui.current_tool_activity = ""
                        /\ tui.tool_start_time = <<>>
                        /\ ~Contains(tui.status, " | [tool] ")
                        /\ PrevSelf.current_tool_activity # ""
                              => ~Contains(tui.status, PrevSelf.current_tool_activity)

\* "reading file" was shown, then the event with the empty activity came
C16_Witness ==
    /\ LastEventIs(EvClear)
    /\ PrevSelf.current_tool_activity = "reading file"
    /\ Contains(PrevSelf.status, "reading file")
    /\ tui.current_tool_activity = ""

\* C17: clearing the activity clears its start time: after any classified
\* events and completed sends, an empty activity label comes with no start
\* time.
C17_NoLabelNoStart == tui.current_tool_activity = "" => tui.tool_start_time = <<>>

\* a send has completed whose events had set an activity and its start time
C17_Witness ==
    /\ sendPc = "idle"
    /\ tui.total_messages_processed >= 1
    /\ tui.current_tool_activity = ""
    /\ \E i \in 1..Len(tui.messages) : tui.messages[i].tool = "ls"
    /\ LastMessage.content = "Error: " \o ToksText(<<Garbage, NL, J(EvNoise), NL,
                                                    J(EvRouter), NL, J(EvBlurb)>>)

ActivityCleared(self) ==
    self.current_tool_activity = "" /\ self.tool_start_time = <<>>

\* C18: an engine event that passes the noise filter and whose message
\* contains "_complete" or "_success" leaves the activity cleared and the
\* status set to the completed status.
C18_CompletionClears ==
    \A ev \in Events :
        (/\ ev.type = "engine"
         /\ Contains(ev.message, "_complete") \/ Contains(ev.message, "_success")
         /\ LastEventIs(ev)
         /\ LastCallDispatched)
            => (ActivityCleared(tui) /\ tui.status = "[check] Task completed")

\* C19: an engine event whose message contains "_failed" or the word
\* "error" clears the activity and sets the error status, its text taken
\* from metadata.error or the default and cut to 50 characters.
C19_FailureShown ==
    \A ev \in Events :
        (/\ ev.type = "engine"
         /\ Contains(ev.message, "_failed") \/ Contains(Lower(ev.message), "error")
         /\ LastEventIs(ev))
            => /\ ActivityCleared(tui)
               /\ tui.status = "[cross] Error: "
                     \o Prefix(Get(ev.md_error, "Unknown error"), ErrorTextMax)
                     \o "..."

\* C20: an engine event whose message contains
\* "file_operations_user_acknowledgment" and whose metadata.acknowledgment
\* is not blank appends one assistant message, the acknowledgment.
C20_AcknowledgmentAppended ==
    \A ev \in Events :
        (/\ ev.type = "engine"
         /\ Contains(ev.message, "file_operations_user_acknowledgment")
         /\ Strip(Get(ev.md_acknowledgment, "")) # ""
         /\ LastEventIs(ev))
            => tui.messages
                  = Append(PrevSelf.messages, Msg("assistant", ev.md_acknowledgment))

\* an engine event whose message contains the state-change marker
IsStateChange(ev) ==
    ev.type = "engine" /\ Contains(Get(ev.message, ""), "system_state_changed")

\* C21 as stated: a state-change event whose metadata.status is "ready"
\* appends one system message, metadata.message, and sets the status to
\* Ready; with any other metadata.status it appends nothing.
C21_ReadyAppends ==
    \A ev \in Events :
        (IsStateChange(ev) /\ LastEventIs(ev)) =>
            IF Get(ev.md_status, "") = "ready"
            THEN /\ tui.messages
                      = Append(PrevSelf.messages, Msg("system", Get(ev.md_message, "")))
                 /\ tui.status = "Status: Ready"
            ELSE tui.messages = PrevSelf.messages

\* C21: a state-change event that passes the noise filter, whose
\* metadata.status is "ready" and whose metadata.message is not empty,
\* appends one system message, metadata.message, and sets the status to
\* "Status: Ready"; with any other metadata.status, or with no
\* metadata.message, it appends nothing and leaves the status as it was.
C21_ReadyAnnounced ==
    \A ev \in Events :
        (IsStateChange(ev) /\ LastEventIs(ev) /\ LastCallDispatched) =>
            IF Get(ev.md_status, "") = "ready" /\ Get(ev.md_message, "") # ""
            THEN /\ tui.messages
                      = Append(PrevSelf.messages, Msg("system", ev.md_message))
                 /\ tui.status = "Status: Ready"
            ELSE /\ tui.messages = PrevSelf.messages
                 /\ tui.status = PrevSelf.status

\* the ready event arrived in a session whose status was not Ready, and its
\* message is the newest of the log
C21_Witness ==
    /\ LastEventIs(EvReady)
    /\ PrevSelf.status # "Status: Ready"
    /\ tui.status = "Status: Ready"
    /\ LastMessage = Msg("system", "Ani is ready")

\* status line and activity indicator
StatusAndActivity(self) ==
    <<self.status, self.current_tool_activity, self.tool_start_time,
      self.tool_progress_dots>>

\* C22: an assistant_message event with non-blank content appends exactly
\* one assistant message marked immediate, carrying metadata.source, its
\* content prefixed by the personality marker when the source is
\* "personality_acknowledgment" and as sent otherwise; status line and
\* activity indicator stay as they were; a blank content changes nothing.
C22_AssistantImmediate ==
    \A ev \in Events :
        (ev.type = "assistant_message" /\ Get(ev.content, "") # NonStr
           /\ LastEventIs(ev)) =>
            IF Strip(Get(ev.content, "")) = "" THEN tui = PrevSelf
            ELSE /\ Len(tui.messages) = Len(PrevSelf.messages) + 1
                 /\ IsPrefixOf(PrevSelf.messages, tui.messages)
                 /\ LastMessage.role = "assistant"
                 /\ LastMessage.immediate
                 /\ LastMessage.source = Get(ev.md_source, "")
                 /\ LastMessage.content
                       = IF Get(ev.md_source, "") = "personality_acknowledgment"
                         THEN "[mask] " \o ev.content ELSE ev.content
                 /\ StatusAndActivity(tui) = StatusAndActivity(PrevSelf)

\* the acknowledgment "On it!" arrived while an activity was shown: it is
\* in the log with the marker and the activity is still shown
C22_Witness ==
    /\ LastEventIs(EvAck)
    /\ LastMessage.content = "[mask] On it!"
    /\ LastMessage.immediate
    /\ PrevSelf.current_tool_activity # ""
    /\ tui.current_tool_activity = PrevSelf.current_tool_activity

-----------------------------------------------------------------------------
(* Properties of the result of a send                                      *)

\* the step in which send_message builds its result message and returns
Finishing == sendPc = "finish" /\ sendPc' = "idle"

\* the content of the newest message after the step
NewContent == tui'.messages[Len(tui'.messages)].content

\* text around the objects of the primary output
Fillers == {"", "hi ", "{", "42"}

\* responses whose content is text, and that content
TextResponses ==
    {[text |-> RespA, content |-> "a"], [text |-> RespB, content |-> "*b*"],
     [text |-> RespBrace, content |-> "}"]}

\* C23: response extraction prefers the last candidate: primary output of
\* a run that returned 0, holding two valid objects with content and
\* metadata and any text around them, gives the cleaned content of the
\* second object as the assistant message.
C23_LastCandidateWins ==
    [][\A first, second \in TextResponses : \A pre, mid, post \in Fillers :
         (/\ Finishing
          /\ returnCode = 0
          /\ wroteOut = pre \o first.text \o mid \o second.text \o post)
            => NewContent = clean_response_formatting(second.content)]_vars

\* the primary output holds none of the valid objects with content and
\* metadata
NoResponseIn(out) ==
    \A r \in {RespA, RespB, RespBrace, RespNumber} : ~Contains(out, r)

ParsedText(out) == CleanJson(Strip(out))

\* text without a brace
PlainFillers == {"", "hi ", "42"}

C25_NeverAnError ==
    [][(Finishing /\ returnCode = 0) => Prefix(NewContent, 7) # "Error: "]_vars

\* C26: formatting cleanup is idempotent: the content of a response, once
\* cleaned for the assistant message, is left as it is by a second
\* cleanup, whatever escaped quotes, backslash-n escapes, emphasis markers
\* and runs of spaces or newlines the content holds.
C26_CleanupIdempotent ==
    [][(Finishing /\ returnCode = 0)
          => clean_response_formatting(NewContent) = NewContent]_vars

\* the error message of a run that failed with this diagnostic text
ErrorMessage(full_stderr) ==
    Msg("assistant",
        "Error: " \o (IF full_stderr # "" THEN full_stderr ELSE "Command failed"))

\* the messages the send has added after the user message
AddedBySend(self) ==
    SubSeq(self.messages, Len(MidSend(FALSE).messages) + 1, Len(self.messages))

\* C27 as stated: a run that exits with a non-zero code leaves exactly one
\* new assistant message for its send, "Error: " and the diagnostic text
\* or "Command failed".
C27_OneAssistantMessage ==
    [][(Finishing /\ returnCode # 0) =>
          /\ Len(SelectSeq(AddedBySend(tui'), LAMBDA m : m.role = "assistant")) = 1
          /\ tui'.messages[Len(tui'.messages)] = ErrorMessage(ToksText(wroteErr))]_vars

\* C27: a run that exits with a non-zero code ends its send with exactly
\* one result message, appended last: an assistant message whose content
\* is "Error: " and all the diagnostic text the child wrote, or "Command
\* failed" when it wrote none, whatever the primary output; the messages
\* that diagnostic events added during the run stay before it.
C27_ErrorReported ==
    [][(Finishing /\ returnCode # 0)
          => tui'.messages = Append(tui.messages, ErrorMessage(ToksText(wroteErr)))]_vars

\* a child that wrote "boom" to its diagnostic output has exited with code
\* 1: the send added "Error: boom" alone
C27_Witness ==
    /\ sendPc = "idle"
    /\ tui.total_messages_processed = 1
    /\ AddedBySend(tui) = <<Msg("assistant", "Error: boom")>>

-----------------------------------------------------------------------------
(* Properties of a failure to start the child                              *)

\* the step of a send in the chat view that returns without having started
\* a child
SpawnFailing ==
    /\ sendPc = "idle" /\ sendPc' = "idle"
    /\ tui.view_mode # "claude_raw"
    /\ sends' = sends + 1

UserMessages(self) == SelectSeq(self.messages, LAMBDA m : m.role = "user")

\* the session waits for input as a session does that has not failed
ReadyForInput(self) ==
    /\ ~self.thinking
    /\ self.current_tool_activity = ""
    /\ self.tool_start_time = <<>>
    /\ self.current_input = ""

\* C28: a spawn failure is confined to the call that hit it: the send
\* appends the user message and exactly one assistant message "Error: ...",
\* the main loop goes on, and the session is left ready, so that every
\* send, the later ones included, ends with its own result message.
C28_SpawnFailureConfined ==
    [][/\ SpawnFailing =>
             /\ tui'.messages
                   = tui.messages \o <<Msg("user", Strip(tui.current_input)),
                                       Msg("assistant", SpawnError)>>
             /\ mainPc' = "loop"
             /\ proc' = "none"
             /\ ReadyForInput(tui')
       /\ sendPc' = "idle" =>
             /\ Len(UserMessages(tui')) = sends'
             /\ tui'.total_messages_processed = sends'
       /\ Finishing =>
             /\ proc = "exited"
             /\ tui'.messages
                   = Append(tui.messages,
                            ResultMessage(returnCode, wroteOut, ToksText(wroteErr)))
             /\ ReadyForInput(tui')]_vars

\* a send that failed to start its child, then a send that was answered
C28_Witness ==
    /\ sendPc = "idle"
    /\ tui.total_messages_processed = 2
    /\ Len(tui.messages) = 5
    /\ tui.messages[3].content = SpawnError
    /\ LastMessage.content = "pong"

-----------------------------------------------------------------------------
(* Properties of the end of the client                                     *)

\* C29: when the user ends the client with Ctrl+C, both children are
\* terminated before it exits: once the main loop has ended, neither the
\* child on the pseudo-terminal nor a backend child is running.
C29_ChildrenTerminated ==
    mainPc = "exited" => (claude_process # "running" /\ proc # "running")

-----------------------------------------------------------------------------
(* Properties of a send in the raw view                                    *)

\* C30: in the raw view a send only writes the text and a newline to the
\* pseudo-terminal, or nothing when the write fails: it appends no message,
\* starts no backend child, leaves the thinking flag, the activity
\* indicator, the response duration and the count of processed messages as
\* they were, and the main loop goes on.
C30_RawSendOnlyWrites ==
    [][(sendPc = "idle" /\ tui.view_mode = "claude_raw" /\ sends' = sends + 1) =>
          /\ ptyIn' \in {ptyIn, Append(ptyIn, Strip(tui.current_input) \o "\n")}
          /\ tui' = [tui EXCEPT !.current_input = ""]
          /\ sendPc' = "idle"
          /\ proc' = "none"
          /\ mainPc' = "loop"]_vars

\* "hi" was sent in the raw view: it is on the pseudo-terminal with its
\* newline, and the log holds the welcome message alone
C30_Witness ==
    /\ tui.view_mode = "claude_raw"
    /\ ptyIn = <<"hi\n">>
    /\ Len(tui.messages) = 1
    /\ tui.total_messages_processed = 0
    /\ ~tui.thinking

-----------------------------------------------------------------------------
(* Properties of a whole send in the chat view                             *)

\* a value of an event that is text with something other than blanks in it
NonBlankText(v) == v \notin {Absent, NonStr} /\ Strip(v) # ""

\* a dispatched event that puts a message in the log
AddsMessage(ev) ==
    LET message == Get(ev.message, "")
    IN  \/ ev.type \in {"assistant_message", "tool_blurb"} /\ NonBlankText(ev.content)
        \/ /\ ev.type = "engine"
           /\ Contains(message, "system_state_changed")
           /\ ev.md_status = "ready"
           /\ ev.md_message \notin {Absent, ""}
        \/ /\ ev.type = "engine"
           /\ ~Contains(message, "system_state_changed")
           /\ Contains(message, "file_operations_user_acknowledgment")
           /\ NonBlankText(ev.md_acknowledgment)

\* the events dispatched by the step
NewlyApplied == SubSeq(applied', Len(applied) + 1, Len(applied'))

\* the messages the step puts at the end of the log
AddedByStep == SubSeq(tui'.messages, Len(tui.messages) + 1, Len(tui'.messages))

\* C31: each send in the chat view produces exactly one result message:
\* the step that starts the send appends the user message and nothing
\* else, the steps of the poll loop append one message for each dispatched
\* event that carries one and no user message, and the step in which
\* send_message returns appends one assistant message, built from the
\* return code and the output of the child (or from the exception when the
\* child could not be started), which is then the last entry of the log.
C31_OneResultMessage ==
    [][/\ (sendPc = "idle" /\ sendPc' = "poll")
             => AddedByStep = <<Msg("user", Strip(tui.current_input))>>
       /\ sendPc = "poll"
             => /\ Len(AddedByStep) = Len(SelectSeq(NewlyApplied, AddsMessage))
                /\ \A i \in 1..Len(AddedByStep) : AddedByStep[i].role # "user"
                /\ SubSeq(tui'.messages, 1, Len(tui.messages)) = tui.messages
       /\ Finishing
             => AddedByStep
                   = <<ResultMessage(returnCode, wroteOut, ToksText(wroteErr))>>
       /\ SpawnFailing
             => AddedByStep = <<Msg("user", Strip(tui.current_input)),
                                Msg("assistant", SpawnError)>>
       /\ (sendPc' = "idle" /\ sends' > 0)
             => /\ tui'.messages[Len(tui'.messages)].role = "assistant"
                /\ ~tui'.messages[Len(tui'.messages)].immediate
                /\ Len(UserMessages(tui')) = sends']_vars

\* the send of "hi" has returned after a run that showed a message of an
\* assistant_message event and one of a tool_blurb event: the log holds the
\* welcome, the user message, those two and the answer "hi", in that order
C31_Witness ==
    /\ sendPc = "idle"
    /\ sends = 1
    /\ Len(tui.messages) = 5
    /\ tui.messages[2] = Msg("user", "hi")
    /\ tui.messages[3].immediate
    /\ tui.messages[4].role = "system"
    /\ tui.messages[5] = Msg("assistant", "hi")

-----------------------------------------------------------------------------
(* Properties of braces inside the strings of a response                   *)

\* responses whose strings hold no brace, and their content
BraceFree ==
    {[text |-> RespA, content |-> "a"], [text |-> RespB, content |-> "*b*"]}

\* C32: literal braces inside string values degrade safely: when the last
\* response object of the primary output of a run that returned 0 has the
\* content "}", the assistant message is that content or the trimmed
\* primary output, and never the content of an object printed before it.
C32_BracesDegradeSafely ==
    [][\A echoed \in BraceFree : \A pre, mid \in PlainFillers :
         (/\ Finishing
          /\ returnCode = 0
          /\ wroteOut \in {pre \o RespBrace,
                           pre \o echoed.text \o mid \o RespBrace})
            => /\ NewContent \in {"}", Strip(wroteOut)}
               /\ NewContent # clean_response_formatting(echoed.content)]_vars

-----------------------------------------------------------------------------
(* Properties of the session after a send                                  *)

\* the step in which a send in the chat view returns
Returning == Finishing \/ SpawnFailing

\* the status line shows the thinking marker or an activity
ShowsBusy(status) == Contains(status, "thinking...") \/ Contains(status, " | [tool] ")

\* C33: every send in the chat view returns the session to idle: when
\* send_message returns, after an answer, a plain-text answer, a non-zero
\* exit or a failure to start the child, and whatever activity the events
\* of the run left set, the thinking flag is false, the activity label is
\* empty and has no start time, the count of processed messages has grown
\* by one, and the status line, recomputed, shows neither the thinking
\* marker nor an activity.
C33_SendReturnsToIdle ==
    [][Returning =>
          /\ ~tui'.thinking
          /\ tui'.current_tool_activity = ""
          /\ tui'.tool_start_time = <<>>
          /\ tui'.total_messages_processed = tui.total_messages_processed + 1
          /\ tui'.status = StatusText(tui', now)
          /\ ~ShowsBusy(tui'.status)]_vars

\* the send has returned after a run that failed with the routing activity
\* still set: the error message holds the event, and the session is idle
C33_Witness ==
    /\ sendPc = "idle"
    /\ tui.total_messages_processed = 1
    /\ Prefix(LastMessage.content, 7) = "Error: "
    /\ Contains(LastMessage.content, "intelligence_router_start")
    /\ tui.current_tool_activity = ""
    /\ ~tui.thinking
    /\ ~ShowsBusy(tui.status)

-----------------------------------------------------------------------------
(* Properties of the activity and its start time                           *)

\* C34: an activity label always has a start time: after any classified
\* events, a label that is not empty comes with a recorded start time.
C34_LabelHasStart ==
    tui.current_tool_activity # "" => tui.tool_start_time # <<>>

-----------------------------------------------------------------------------
(* Properties of copy mode                                                 *)

\* C35: no screen redraw happens while copy mode is on: whatever the keys,
\* the sends and the diagnostic events, draw_screen has never been called
\* with copy_mode true.
C35_NoDrawInCopyMode == ~copyDraw

-----------------------------------------------------------------------------
(* A user who cycles the provider and toggles the tools before sending.    *)

\* Ctrl+T and Ctrl+O
ToolKeys == {20, 15}

NextTools ==
    \/ RunStart
    \/ \E ch \in ToolKeys : PressShortcut(ch, MaxToolKeys)
    \/ \E ch \in InputChars : KeyPrintable(ch)
    \/ KeyEnterChat
    \/ ChildWrite
    \/ ChildExit
    \/ \E readOut, readErr \in BOOLEAN : PollRead(readOut, readErr)
    \/ PollIdle
    \/ PollExit
    \/ SendFinish

SpecTools == Init /\ [][NextTools]_vars

-----------------------------------------------------------------------------
(* Properties of the tools toggle                                          *)

\* the command line carries the tools flag
HasToolsFlag(command) ==
    \E i \in 1..(Len(command) - 1) :
        command[i] = "--tools" /\ command[i + 1] = "enabled"

\* the session but for its status line
Settings(self) == [self EXCEPT !.status = ""]

\* C36: tools are tied to the local provider: a key press changes
\* tools_enabled only when the provider is "local", and then changes
\* nothing else but the status line; Ctrl+T moves the provider on and keeps
\* tools_enabled; Ctrl+O with another provider changes nothing at all; and
\* the command of a send carries the tools flag exactly when the provider
\* is "local" and tools_enabled is true, however often the provider was
\* cycled before.
C36_ToolsTiedToLocal ==
    [][/\ keys' = keys + 1 =>
             \/ /\ tui'.provider = CycleNext(providers, tui.provider)
                /\ tui'.tools_enabled = tui.tools_enabled
             \/ /\ tui.provider = "local"
                /\ Settings(tui') = Settings([tui EXCEPT !.tools_enabled = ~@])
                /\ tui'.status = StatusText(tui', now)
             \/ /\ tui.provider # "local"
                /\ tui' = tui
       /\ tui'.tools_enabled # tui.tools_enabled
             => tui.provider = "local" /\ tui'.provider = "local"
       /\ (sendPc = "idle" /\ sendPc' = "poll") =>
             (HasToolsFlag(cmd') <=> (tui.provider = "local" /\ tui.tools_enabled))]_vars

\* tools were enabled with the local provider, the provider was cycled
\* away and back to "local" (six presses in all), and the command of the
\* send carries the tools flag
C36_Witness ==
    /\ sendPc = "poll"
    /\ keys = 6
    /\ tui.provider = "local"
    /\ tui.tools_enabled
    /\ HasToolsFlag(cmd)

====
